---- MODULE Spec2Model ----
(***************************************************************************)
(* Model of the change-detection-and-apply engine of ip_updater:           *)
(*   - pkg/dns:        DNSManager.UpdateDNSRecord over the five providers  *)
(*   - pkg/fileupdate: FileUpdater.UpdateIP over json/yaml/toml/ini files  *)
(*   - internal/updater: Updater.UpdateAll, its retry loops and its errors *)
(***************************************************************************)
EXTENDS Integers, Sequences, FiniteSets, TLC

VARIABLES
    dnsTarget,   \* config.DNSUpdater the manager is called with (static configuration)
    zone,        \* records the target's provider holds for the target's domain
    creds,       \* credentials currently stored in each registered provider instance
    dnsIP,       \* ip argument of the last UpdateDNSRecord call
    dnsLog,      \* provider calls made by the last UpdateDNSRecord call, in order
    dnsResult,   \* error returned by the last UpdateDNSRecord call ("nil" = success)
    repeated,    \* the last call repeated a successful call with the same ip and nobody else touched the zone in between
    tampered,    \* somebody else changed the zone since the last call began
    dnsCall,     \* where the running UpdateDNSRecord call is: its recordsMap and its position in updater.Records
    dnsSent,     \* requests the provider's API got from the last UpdateDNSRecord call, in order, each with the provider call that sent it
    fileCfg,     \* config.FileUpdater the FileUpdater was built from (static configuration)
    fsFile,      \* content of the file at FilePath
    fsBackup,    \* content of the file at FilePath + ".backup"
    fileCall,    \* what the last FileUpdater.UpdateIP call was given, did and returned
    config,      \* config.Config the Updater was built from: DNS targets, file targets, Retry.MaxRetries
    zones,       \* for each DNS target, the records its provider holds for its domain
    mgrCreds,    \* credentials stored in the provider instances of the Updater's DNSManager
    disk,        \* for each file target, the content at FilePath and at FilePath + ".backup"
    run,         \* where the running UpdateAll call is: loop, target, attempt counter, newIP
    events,      \* validations, sleeps and attempts of the UpdateAll call, in order
    errs,        \* the errors slices of UpdateDNS and UpdateFiles
    returned,    \* what UpdateAll returned
    probe,       \* a call made with a set or nil logger, and the same call with the other logger
    adapter,     \* one provider adapter: its credential fields, the records its API holds, its last call
    retry,       \* one retry loop of the Updater: its counter and what it returned
    daemon,      \* main's daemon loop: its position, dnsLastIP, fileLastIP, the cancelled context
    classified,  \* one error text and what isNonRetryableError returned for it
    dnsTest      \* one --test-dns pass: the updater under test and the lines it logged

dnsVars == <<dnsTarget, zone, creds, dnsIP, dnsLog, dnsResult, repeated, tampered, dnsCall,
            dnsSent>>

fileVars == <<fileCfg, fsFile, fsBackup, fileCall>>

cycleVars == <<config, zones, mgrCreds, disk, run, events, errs, returned>>

mainVars == <<daemon, classified, dnsTest>>

partVars == <<adapter, retry, daemon, classified, dnsTest>>

vars == <<dnsTarget, zone, creds, dnsIP, dnsLog, dnsResult, repeated, tampered, dnsCall,
          dnsSent,
          fileCfg, fsFile, fsBackup, fileCall,
          config, zones, mgrCreds, disk, run, events, errs, returned, probe,
          adapter, retry, daemon, classified, dnsTest>>

----------------------------------------------------------------------------
(* Bounds *)

MaxRecords == 2      \* desired records in a target
MaxZone == 1         \* records the provider holds initially
MaxTargets == 2      \* targets of each kind in a configuration

----------------------------------------------------------------------------
(* DNS: data *)

Providers == {"aliyun", "tencent", "huawei", "cloudflare", "godaddy"}

UnregisteredProvider == "route53"

\* "ww" is a substring of "www": a keyword search for "ww" also returns "www".
Names == {"www", "ww"}

Types == {"A"}

IPs == {"1.1.1.1", "2.2.2.2"}

NoIP == "-"

ErrProviderNotFound == "DNS provider not found"

ErrRecordNotFound == "DNS record not found"

ErrUpdateRequest == "update request failed"

ErrFetchRequest == "list request failed"

ErrCredentialsUnset == "credentials not set"

ErrCloudflareGetRecords == "Cloudflare GetRecords unverified"

DesiredRecord == [name : Names, type : Types]

ZoneRecord == [name : Names, type : Types, value : IPs]

SeqsUpTo(S, n) == UNION {[1..k -> S] : k \in 0..n}

CredChoices ==
    { [token |-> "",    accessKey |-> "ak", secretKey |-> "sk"],
      [token |-> "tok", accessKey |-> "",   secretKey |-> ""] }

NoCred == [a |-> "", b |-> ""]

\* no call of UpdateDNSRecord is running
NoDNSCall == [pc |-> "idle"]

\* the value of dnsResult while a call is running
Running == "running"

Entry(op, prov, name, type, value, err, recs) ==
    [op |-> op, prov |-> prov, name |-> name, type |-> type,
     value |-> value, err |-> err, recs |-> recs]

----------------------------------------------------------------------------
(* DNS: provider adapters.  A provider call returns the provider's new record
   set together with the error the adapter returns; `accepted` says whether
   the provider's API answered the call's requests successfully.            *)

RRKeyWordMatch(rr, kw) == rr = kw \/ (kw = "ww" /\ rr = "www")

FirstIndex(z, P(_)) ==
    IF \E i \in 1..Len(z) : P(z[i])
    THEN CHOOSE i \in 1..Len(z) : P(z[i]) /\ \A j \in 1..(i - 1) : ~P(z[j])
    ELSE 0

Reply(z, err) == [zone |-> z, err |-> err]

\* aliyun: DescribeDomainRecords(RRKeyWord, Type), first hit is updated; no hit -> AddDomainRecord
AliyunUpdateRecord(z, name, type, ip, accepted) ==
    LET Hit(r) == RRKeyWordMatch(r.name, name) /\ r.type = type
        i == FirstIndex(z, Hit)
        rec == [name |-> name, type |-> type, value |-> ip]
    IN IF ~accepted THEN Reply(z, ErrUpdateRequest)
       ELSE IF i = 0 THEN Reply(Append(z, rec), "nil")
       ELSE Reply([z EXCEPT ![i] = rec], "nil")

\* tencent, huawei, cloudflare: the first record of that name and type is
\* modified; no such record -> ErrRecordNotFound
ExactUpdateRecord(z, name, type, ip, accepted) ==
    LET Hit(r) == r.name = name /\ r.type = type
        i == FirstIndex(z, Hit)
    IN IF ~accepted THEN Reply(z, ErrUpdateRequest)
       ELSE IF i = 0 THEN Reply(z, ErrRecordNotFound)
       ELSE Reply([z EXCEPT ![i].value = ip], "nil")

RECURSIVE DropKey(_, _, _)
DropKey(z, name, type) ==
    IF z = <<>> THEN <<>>
    ELSE IF Head(z).name = name /\ Head(z).type = type
         THEN DropKey(Tail(z), name, type)
         ELSE <<Head(z)>> \o DropKey(Tail(z), name, type)

\* godaddy: PUT /domains/{d}/records/{type}/{name} replaces every record of
\* that name and type by the one given
GoDaddyUpdateRecord(z, name, type, ip, accepted) ==
    IF ~accepted THEN Reply(z, ErrUpdateRequest)
    ELSE Reply(Append(DropKey(z, name, type),
                      [name |-> name, type |-> type, value |-> ip]), "nil")

UpdateRecord(prov, z, name, type, ip, accepted) ==
    IF prov = "aliyun" THEN AliyunUpdateRecord(z, name, type, ip, accepted)
    ELSE IF prov = "godaddy" THEN GoDaddyUpdateRecord(z, name, type, ip, accepted)
    ELSE ExactUpdateRecord(z, name, type, ip, accepted)

Fetched(recs, err) == [recs |-> recs, err |-> err]

AliyunGetRecords(z, cred, accepted) ==
    IF cred.a = "" \/ cred.b = "" THEN Fetched(<<>>, ErrCredentialsUnset)
    ELSE IF ~accepted THEN Fetched(<<>>, ErrFetchRequest)
    ELSE Fetched(z, "nil")

CloudflareGetRecords(z, cred, accepted) == Fetched(<<>>, ErrCloudflareGetRecords)

\* tencent, huawei, godaddy: the adapter's GetRecords is not part of the sources
ListedGetRecords(z, cred, accepted) ==
    IF ~accepted THEN Fetched(<<>>, ErrFetchRequest) ELSE Fetched(z, "nil")

GetRecords(prov, z, cred, accepted) ==
    IF prov = "aliyun" THEN AliyunGetRecords(z, cred, accepted)
    ELSE IF prov = "cloudflare" THEN CloudflareGetRecords(z, cred, accepted)
    ELSE ListedGetRecords(z, cred, accepted)

----------------------------------------------------------------------------
(* DNS: the requests a provider call sends.  A call of an adapter sends its
   requests to the provider's API one after the other; the k-th request sent
   gets the k-th of the replies the API gives in this call.                 *)

ApiReplies == {"ok", "error"}

ReplySeqs == [1..3 -> ApiReplies]

Sent(verb, kind, reply) == [verb |-> verb, kind |-> kind, reply |-> reply]

\* how an UpdateRecord call ends: the records the API holds, the requests
\* sent, the error returned, and the position of the record the adapter
\* selected for the update (0: none)
Ended(z, sent, err, picked) == [zone |-> z, sent |-> sent, err |-> err, picked |-> picked]

\* the write request that ends an UpdateRecord call, and what it leaves
Write(z, written, before, verb, kind, reply, picked) ==
    IF reply # "ok"
    THEN Ended(z, Append(before, Sent(verb, kind, reply)), ErrUpdateRequest, picked)
    ELSE Ended(written, Append(before, Sent(verb, kind, reply)), "nil", picked)

\* AliyunProvider.getRecordId: records[0] of DescribeDomainRecords(RRKeyWord, Type)
AliyunGetRecordId(z, name, type) ==
    LET Hit(r) == RRKeyWordMatch(r.name, name) /\ r.type = type
    IN FirstIndex(z, Hit)

\* AliyunProvider.UpdateRecord with addRecord
AliyunUpdateRecordSteps(z, name, type, ip, replies, i) ==
    LET find == <<Sent("DescribeDomainRecords", "read", replies[1])>>
        rec == [name |-> name, type |-> type, value |-> ip]
    IN IF replies[1] # "ok" THEN Ended(z, find, ErrUpdateRequest, 0)
       ELSE IF i = 0
       THEN Write(z, Append(z, rec), find, "AddDomainRecord", "create", replies[2], 0)
       ELSE Write(z, [z EXCEPT ![i] = rec], find, "UpdateDomainRecord", "update", replies[2], i)

\* TencentDNSProvider.getRecordId: RecordList[0] of DescribeRecordList(Subdomain, RecordType)
TencentGetRecordId(z, name, type) ==
    LET Hit(r) == r.name = name /\ r.type = type
    IN FirstIndex(z, Hit)

\* TencentDNSProvider.UpdateRecord
TencentUpdateRecordSteps(z, name, type, ip, replies, i) ==
    LET find == <<Sent("DescribeRecordList", "read", replies[1])>>
    IN IF replies[1] # "ok" THEN Ended(z, find, ErrUpdateRequest, 0)
       ELSE IF i = 0 THEN Ended(z, find, ErrRecordNotFound, 0)
       ELSE Write(z, [z EXCEPT ![i].value = ip], find, "ModifyRecord", "update", replies[2], i)

\* HuaweiDNSProvider.getRecordsetId: the first recordset of the zone's list
\* whose name and type are the requested ones
HuaweiGetRecordsetId(z, name, type) ==
    LET Hit(r) == r.name = name /\ r.type = type
    IN FirstIndex(z, Hit)

\* CloudflareDNSProvider.getRecordId: records[0] of GET dns_records?name=&type=
CloudflareGetRecordId(z, name, type) ==
    LET Hit(r) == r.name = name /\ r.type = type
    IN FirstIndex(z, Hit)

\* HuaweiDNSProvider.UpdateRecord and CloudflareDNSProvider.UpdateRecord:
\* getZoneId, the record's id, PUT
ZonedUpdateRecordSteps(z, name, type, ip, replies, i, zonesVerb, findVerb, putVerb) ==
    LET getZone == <<Sent(zonesVerb, "read", replies[1])>>
        find == Append(getZone, Sent(findVerb, "read", replies[2]))
    IN IF replies[1] # "ok" THEN Ended(z, getZone, ErrUpdateRequest, 0)
       ELSE IF replies[2] # "ok" THEN Ended(z, find, ErrUpdateRequest, 0)
       ELSE IF i = 0 THEN Ended(z, find, ErrRecordNotFound, 0)
       ELSE Write(z, [z EXCEPT ![i].value = ip], find, putVerb, "update", replies[3], i)

\* GoDaddyDNSProvider.UpdateRecord
GoDaddyUpdateRecordSteps(z, name, type, ip, replies) ==
    Write(z, Append(DropKey(z, name, type), [name |-> name, type |-> type, value |-> ip]),
          <<>>, "PUT /domains/{d}/records/{type}/{name}", "replace", replies[1], 0)

\* the record the adapter's lookup request selects among the records z the
\* API holds when it answers (0: none; godaddy's UpdateRecord looks nothing up)
LookedUp(prov, z, name, type) ==
    CASE prov = "aliyun" -> AliyunGetRecordId(z, name, type)
      [] prov = "tencent" -> TencentGetRecordId(z, name, type)
      [] prov = "huawei" -> HuaweiGetRecordsetId(z, name, type)
      [] prov = "cloudflare" -> CloudflareGetRecordId(z, name, type)
      [] OTHER -> 0

\* the position of the lookup among the requests of UpdateRecord (0: none)
LookupAt(prov) ==
    CASE prov \in {"aliyun", "tencent"} -> 1
      [] prov \in {"huawei", "cloudflare"} -> 2
      [] OTHER -> 0

\* provider.UpdateRecord, the lookup having selected record i, the write
\* reaching the API when it holds z
UpdateRecordStepsFrom(prov, z, name, type, ip, replies, i) ==
    CASE prov = "aliyun" -> AliyunUpdateRecordSteps(z, name, type, ip, replies, i)
      [] prov = "tencent" -> TencentUpdateRecordSteps(z, name, type, ip, replies, i)
      [] prov = "huawei" ->
            ZonedUpdateRecordSteps(z, name, type, ip, replies, i,
                "GET /v2/zones", "GET /v2/zones/{id}/recordsets", "PUT /v2/zones/{id}/recordsets/{id}")
      [] prov = "cloudflare" ->
            ZonedUpdateRecordSteps(z, name, type, ip, replies, i,
                "GET /zones", "GET /zones/{id}/dns_records", "PUT /zones/{id}/dns_records/{id}")
      [] OTHER -> GoDaddyUpdateRecordSteps(z, name, type, ip, replies)

\* provider.UpdateRecord, nobody else changing the records between its requests
UpdateRecordSteps(prov, z, name, type, ip, replies) ==
    UpdateRecordStepsFrom(prov, z, name, type, ip, replies, LookedUp(prov, z, name, type))

\* replies in which the n-th request gets reply and the others are answered
RepliesWith(n, reply) == [k \in 1..3 |-> IF k = n THEN reply ELSE "ok"]

\* the n-th request of a provider.UpdateRecord call reaches the API, which
\* holds z and gives reply; the earlier requests were answered and the
\* lookup, if it was one of them, selected record picked.  `over` says that
\* the call returns after this request.
UpdateRecordRequest(prov, z, name, type, ip, n, reply, picked) ==
    LET i == IF n <= LookupAt(prov) THEN LookedUp(prov, z, name, type) ELSE picked
        u == UpdateRecordStepsFrom(prov, z, name, type, ip, RepliesWith(n, reply), i)
        over == Len(u.sent) = n
    IN [sent |-> u.sent[n], over |-> over, picked |-> i,
        zone |-> IF over THEN u.zone ELSE z,
        err |-> IF over THEN u.err ELSE "nil"]

\* AliyunProvider.GetRecords: nothing is sent while a credential field is
\* empty; otherwise one signed GET with Action=DescribeDomainRecords
AliyunGetRecordsSent(cred, reply) ==
    IF cred.a = "" \/ cred.b = "" THEN <<>>
    ELSE <<Sent("DescribeDomainRecords", "read", reply)>>

\* tencent, huawei, godaddy: the adapter's GetRecords is not part of the
\* sources; it lists the domain's records with one request
ListedGetRecordsSent(cred, reply) == <<Sent("list", "read", reply)>>

\* the requests provider.GetRecords(domain) sends; cloudflare's returns its
\* error without sending any
GetRecordsSent(prov, cred, reply) ==
    IF prov = "aliyun" THEN AliyunGetRecordsSent(cred, reply)
    ELSE IF prov = "cloudflare" THEN <<>>
    ELSE ListedGetRecordsSent(cred, reply)

\* the requests a provider call of the manager sent, each with the call's name
SentBy(call, sent) ==
    [k \in 1..Len(sent) |-> [call |-> call, verb |-> sent[k].verb,
                              kind |-> sent[k].kind, reply |-> sent[k].reply]]

----------------------------------------------------------------------------
(* DNS: DNSManager.UpdateDNSRecord *)

GetProvider_Any(name) == TRUE

GetProvider(name) == name \in Providers

CredentialsFor(t) ==
    IF t.provider = "cloudflare" /\ t.token # ""
    THEN [a |-> t.token, b |-> ""]
    ELSE [a |-> t.accessKey, b |-> t.secretKey]

\* SetCredentials(accessKey, secretKey): the fields the adapter keeps
StoredCredentials(prov, accessKey, secretKey) ==
    IF prov = "cloudflare" THEN [a |-> accessKey, b |-> ""]
    ELSE [a |-> accessKey, b |-> secretKey]

SetCredentials_Once(cr, prov, accessKey, secretKey) ==
    [x \in DOMAIN cr |-> IF x = prov /\ cr[x].a = ""
                         THEN StoredCredentials(prov, accessKey, secretKey) ELSE cr[x]]

\* provider.SetCredentials(...) on the instance the manager registered under prov
SetCredentials(cr, prov, accessKey, secretKey) ==
    [x \in DOMAIN cr |-> IF x = prov THEN StoredCredentials(prov, accessKey, secretKey) ELSE cr[x]]

LookupKey(name, type) == <<name, type>>

RECURSIVE BuildRecordsMap(_, _)
BuildRecordsMap(recs, m) ==
    IF recs = <<>> THEN m
    ELSE LET k == LookupKey(Head(recs).name, Head(recs).type)
         IN BuildRecordsMap(Tail(recs),
                [x \in (DOMAIN m) \cup {k} |-> IF x = k THEN Head(recs).value ELSE m[x]])

EmptyMap == [x \in {} |-> ""]

RecordsMapOf(g) == IF g.err # "nil" THEN EmptyMap ELSE BuildRecordsMap(g.recs, EmptyMap)

FetchCalls_Twice(prov, g) ==
    <<Entry("GetRecords", prov, "", "", "", g.err, g.recs),
      Entry("GetRecords", prov, "", "", "", g.err, g.recs)>>

FetchCalls(prov, g) == <<Entry("GetRecords", prov, "", "", "", g.err, g.recs)>>

ShouldSkip_Never(m, k, ip) == FALSE

ShouldSkip_WhenNotFound(m, k, ip) == k \notin DOMAIN m \/ m[k] = ip

ShouldSkip_AnyFound(m, k, ip) == k \in DOMAIN m

ShouldSkip(m, k, ip) == k \in DOMAIN m /\ m[k] = ip

StopOnError(err) == err # "nil"

\* one pass of the loop over updater.Records, for record i, with the
\* provider holding z: the record is skipped, or UpdateRecord is called
RecordStep(t, ip, m, i, z, accepted) ==
    LET r == t.records[i]
        u == UpdateRecord(t.provider, z, r.name, r.type, ip, accepted)
    IN IF ShouldSkip(m, LookupKey(r.name, r.type), ip)
       THEN [zone |-> z, log |-> <<>>, err |-> "nil", stop |-> FALSE]
       ELSE [zone |-> u.zone,
             log |-> <<Entry("UpdateRecord", t.provider, r.name, r.type, ip, u.err, <<>>)>>,
             err |-> u.err, stop |-> StopOnError(u.err)]

\* the loop over updater.Records from record i on, nobody else changing the
\* provider's records meanwhile
RECURSIVE ProcessRecords(_, _, _, _, _, _, _)
ProcessRecords(t, ip, m, failAt, i, z, log) ==
    IF i > Len(t.records) THEN [zone |-> z, log |-> log, result |-> "nil"]
    ELSE LET s == RecordStep(t, ip, m, i, z, i \notin failAt)
         IN IF s.stop
            THEN [zone |-> s.zone, log |-> log \o s.log, result |-> s.err]
            ELSE ProcessRecords(t, ip, m, failAt, i + 1, s.zone, log \o s.log)

\* SetCredentials has been called with c; GetRecords is called on the
\* instance as it is then, and recordsMap is built from what it returns
FetchStep(t, z, fetchOK, c, cr) ==
    LET g == GetRecords(t.provider, z, cr[t.provider], fetchOK)
    IN [m |-> RecordsMapOf(g),
        log |-> <<Entry("SetCredentials", t.provider, c.a, c.b, "", "nil", <<>>)>>
                    \o FetchCalls(t.provider, g),
        sent |-> GetRecordsSent(t.provider, cr[t.provider],
                                IF fetchOK THEN "ok" ELSE "error")]

\* what follows SetCredentials in UpdateDNSRecord, on the instance as it is then
WithCredentials(t, ip, z, fetchOK, failAt, c, cr) ==
    LET f == FetchStep(t, z, fetchOK, c, cr)
        p == ProcessRecords(t, ip, f.m, failAt, 1, z, f.log)
    IN  [zone |-> p.zone, creds |-> cr, log |-> p.log, result |-> p.result]

\* DNSManager.UpdateDNSRecord(t, ip) as one step: from the call to its
\* return nobody else changes the provider's records
UpdateDNSRecord(t, ip, z, cr, fetchOK, failAt) ==
    IF ~GetProvider(t.provider)
    THEN [zone |-> z, creds |-> cr, log |-> <<>>, result |-> ErrProviderNotFound]
    ELSE WithCredentials(t, ip, z, fetchOK, failAt, CredentialsFor(t),
                         SetCredentials(cr, t.provider, CredentialsFor(t).a, CredentialsFor(t).b))

\* the requests the loop over updater.Records sends from record i on, the
\* provider holding z: the API refuses request number `refused` of the
\* UpdateRecord call for a record of failAt and answers every other request.
\* `agrees` says that the calls for the records of failAt, and only these,
\* ended on a refused request.
RECURSIVE SentForRecords(_, _, _, _, _, _, _)
SentForRecords(t, ip, m, failAt, refused, i, z) ==
    IF i > Len(t.records) THEN [sent |-> <<>>, agrees |-> TRUE]
    ELSE LET r == t.records[i]
             u == UpdateRecordSteps(t.provider, z, r.name, r.type, ip,
                    IF i \in failAt THEN RepliesWith(refused, "error")
                    ELSE RepliesWith(1, "ok"))
             rest == IF StopOnError(u.err) THEN [sent |-> <<>>, agrees |-> TRUE]
                     ELSE SentForRecords(t, ip, m, failAt, refused, i + 1, u.zone)
         IN IF ShouldSkip(m, LookupKey(r.name, r.type), ip)
            THEN SentForRecords(t, ip, m, failAt, refused, i + 1, z)
            ELSE [sent |-> SentBy("UpdateRecord", u.sent) \o rest.sent,
                  agrees |-> rest.agrees /\ ((i \in failAt) <=> (u.err = ErrUpdateRequest))]

\* the requests one call of DNSManager.UpdateDNSRecord(t, ip) sends, from
\* the call to its return nobody else changing the provider's records
UpdateDNSRecordSent(t, ip, z, cr, fetchOK, failAt, refused) ==
    IF ~GetProvider(t.provider) THEN [sent |-> <<>>, agrees |-> TRUE]
    ELSE LET c == CredentialsFor(t)
             f == FetchStep(t, z, fetchOK, c, SetCredentials(cr, t.provider, c.a, c.b))
             p == SentForRecords(t, ip, f.m, failAt, refused, 1, z)
         IN [sent |-> SentBy("GetRecords", f.sent) \o p.sent, agrees |-> p.agrees]

----------------------------------------------------------------------------
(* File: values, documents and the operations of FileUpdater *)

\* A string is a sequence of one-character strings, so that the operations
\* on text (strings.Split, the CIDR pattern, net.ParseIP) work on characters.

Digits == {"0", "1", "2", "3", "4", "5", "6", "7", "8", "9"}

DigitValue(c) ==
    CASE c = "0" -> 0 [] c = "1" -> 1 [] c = "2" -> 2 [] c = "3" -> 3 [] c = "4" -> 4
      [] c = "5" -> 5 [] c = "6" -> 6 [] c = "7" -> 7 [] c = "8" -> 8 [] c = "9" -> 9

MinOf(S) == CHOOSE x \in S : \A y \in S : x <= y

\* strings.Split(s, sep) for a one-character separator
RECURSIVE Split(_, _)
Split(s, sep) ==
    LET hits == {i \in 1..Len(s) : s[i] = sep}
    IN IF hits = {} THEN <<s>>
       ELSE LET i == MinOf(hits)
            IN <<SubSeq(s, 1, i - 1)>> \o Split(SubSeq(s, i + 1, Len(s)), sep)

\* strings.ToLower on the format names that occur
ToLower(f) ==
    CASE f = "JSON" -> "json"
      [] f = "Yaml" -> "yaml"
      [] OTHER -> f

RECURSIVE DecimalValue(_)
DecimalValue(s) ==
    IF s = <<>> THEN 0
    ELSE 10 * DecimalValue(SubSeq(s, 1, Len(s) - 1)) + DigitValue(s[Len(s)])

\* net.ParseIP(s) # nil, for text without ':' (dotted-decimal IPv4 only):
\* four fields of one to three digits, each at most 255, no leading zero
ParseIP(s) ==
    LET fields == Split(s, ".")
    IN /\ Len(fields) = 4
       /\ \A n \in 1..4 :
            LET f == fields[n]
            IN /\ Len(f) \in 1..3
               /\ \A j \in 1..Len(f) : f[j] \in Digits
               /\ (Len(f) > 1 => f[1] # "0")
               /\ DecimalValue(f) <= 255

\* regexp `^(.+?)(/\d+)$`: the shortest non-empty prefix that is followed by
\* a "/" and one or more digits reaching the end of the text
CidrMatch(s) ==
    LET starts == {i \in 2..Len(s) :
                      /\ s[i] = "/"
                      /\ i < Len(s)
                      /\ \A j \in (i + 1)..Len(s) : s[j] \in Digits}
    IN IF starts = {} THEN [matched |-> FALSE, ip |-> <<>>, mask |-> <<>>]
       ELSE LET i == MinOf(starts)
            IN [matched |-> TRUE, ip |-> SubSeq(s, 1, i - 1), mask |-> SubSeq(s, i, Len(s))]

Warn(who, text) == IF ParseIP(text) THEN <<>> ELSE <<who>>

processIPWithMask_NoMask(currentValue, newIP) ==
    [value |-> newIP, warnings |-> Warn("current", currentValue) \o Warn("new", newIP)]

\* FileUpdater.processIPWithMask with the Warnf calls it makes (Logger set)
processIPWithMask(currentValue, newIP) ==
    LET m == CidrMatch(currentValue)
    IN IF m.matched
       THEN [value |-> newIP \o m.mask,
             warnings |-> Warn("current", m.ip) \o Warn("new", newIP)]
       ELSE [value |-> newIP,
             warnings |-> Warn("current", currentValue) \o Warn("new", newIP)]

\* Values of a decoded document (interface{} in a map[string]interface{})
Val(t, s, m) == [t |-> t, s |-> s, m |-> m]

StrV(s) == Val("string", s, {})

NumV == Val("number", <<>>, {})

\* a nil interface{}: JSON null, YAML ~
NullV == Val("null", <<>>, {})

\* a map[string]interface{} holding the entries es
MapV(es) == Val("map", <<>>, es)

\* the nil map a decoder leaves when the document is JSON `null` or empty YAML
NilMapV == Val("nilmap", <<>>, {})

KV(k, v) == [k |-> k, v |-> v]

\* _, ok := m[key]
Has(mp, key) == \E e \in mp.m : e.k = key

\* m[key]
At(mp, key) == (CHOOSE e \in mp.m : e.k = key).v

Put_KeepOld(mp, key, v) ==
    IF Has(mp, key) THEN mp ELSE MapV(mp.m \cup {KV(key, v)})

\* m[key] = v
Put(mp, key, v) == MapV({e \in mp.m : e.k # key} \cup {KV(key, v)})

ErrKeyNotFound == "key not found"

ErrInvalidPath == "invalid path at key"

ErrNotString == "value is not a string"

ErrIniKeyPath == "invalid key path for INI format"

ErrIniNoSection == "section does not exist"

ErrUnsupported == "unsupported file format"

ErrNoFile == "no such file"

ErrParse == "parse error"

ErrBackup == "failed to create backup"

ErrAtomicWrite == "atomic write failed"

\* the call does not return: assignment to an entry in a nil map
Panic == "panic"

\* the call does not return: section.Key("") is a nil *ini.Key, and its
\* String and SetValue methods dereference it
NilKeyPanic == "panic: nil key"

RECURSIVE GetAt(_, _)
GetAt(current, keys) ==
    IF Len(keys) = 1
    THEN IF Has(current, keys[1])
         THEN [err |-> "nil", v |-> At(current, keys[1])]
         ELSE [err |-> ErrKeyNotFound, v |-> NullV]
    ELSE IF Has(current, keys[1]) /\ At(current, keys[1]).t = "map"
         THEN GetAt(At(current, keys[1]), Tail(keys))
         ELSE [err |-> ErrInvalidPath, v |-> NullV]

getNestedValue(data, keyPath) == GetAt(data, Split(keyPath, "/"))

RECURSIVE SetAt(_, _, _)
SetAt(current, keys, value) ==
    IF Len(keys) = 1
    THEN IF current.t = "nilmap"
         THEN [err |-> Panic, data |-> current]
         ELSE [err |-> "nil", data |-> Put(current, keys[1], value)]
    ELSE LET key == keys[1]
             isNil == ~Has(current, key) \/ At(current, key).t = "null"
         IN IF isNil /\ current.t = "nilmap"
            THEN [err |-> Panic, data |-> current]
            ELSE LET next == IF isNil THEN MapV({}) ELSE At(current, key)
                 IN IF next.t # "map"
                    THEN [err |-> ErrInvalidPath, data |-> current]
                    ELSE LET r == SetAt(next, Tail(keys), value)
                         IN IF r.err # "nil"
                            THEN [err |-> r.err, data |-> current]
                            ELSE [err |-> "nil", data |-> Put(current, key, r.data)]

\* a set that refuses what a get refuses
setNestedValue_ExistingOnly(data, keyPath, value) ==
    IF GetAt(data, Split(keyPath, "/")).err # "nil"
    THEN [err |-> GetAt(data, Split(keyPath, "/")).err, data |-> data]
    ELSE SetAt(data, Split(keyPath, "/"), value)

setNestedValue(data, keyPath, value) == SetAt(data, Split(keyPath, "/"), value)

\* Contents of a path of the file system.  A well-formed file is the document
\* it decodes to plus its layout (comments, key order, spacing): an encoder
\* always produces the canonical layout, a hand-written file has its own.
NoFile == [kind |-> "missing", doc |-> NilMapV, layout |-> "-"]

\* bytes the decoder of the configured format rejects
Garbage == [kind |-> "garbage", doc |-> NilMapV, layout |-> "-"]

\* what io.Copy leaves in the destination when it fails part-way
PartialCopy == [kind |-> "partial", doc |-> NilMapV, layout |-> "-"]

Text(doc, layout) == [kind |-> "text", doc |-> doc, layout |-> layout]

\* os.ReadFile + json.Unmarshal / yaml.Unmarshal / toml.DecodeFile / ini.Load
Decode(file) ==
    CASE file.kind = "missing" -> [err |-> ErrNoFile, doc |-> NilMapV]
      [] file.kind = "text" -> [err |-> "nil", doc |-> file.doc]
      [] OTHER -> [err |-> ErrParse, doc |-> NilMapV]

\* json.MarshalIndent / yaml.Marshal / toml.Encoder.Encode / ini.File.WriteTo
Encode(doc) == Text(doc, "canonical")

Got(err, s) == [err |-> err, s |-> s]

\* getCurrentValueJSON, getCurrentValueYAML, getCurrentValueTOML
getCurrentValueNested(cfg, file) ==
    LET d == Decode(file)
    IN IF d.err # "nil" THEN Got(d.err, <<>>)
       ELSE LET g == getNestedValue(d.doc, cfg.keyPath)
            IN IF g.err # "nil" THEN Got(g.err, <<>>)
               ELSE IF g.v.t = "string" THEN Got("nil", g.v.s)
               ELSE Got(ErrNotString, <<>>)

getCurrentValueINI(cfg, file) ==
    LET d == Decode(file)
        parts == Split(cfg.keyPath, "/")
    IN IF d.err # "nil" THEN Got(d.err, <<>>)
       ELSE IF Len(parts) # 2 THEN Got(ErrIniKeyPath, <<>>)
       ELSE IF ~Has(d.doc, parts[1]) THEN Got(ErrIniNoSection, <<>>)
       ELSE LET section == At(d.doc, parts[1])
            IN IF parts[2] = <<>> THEN Got(NilKeyPanic, <<>>)
               ELSE IF Has(section, parts[2]) THEN Got("nil", At(section, parts[2]).s)
               ELSE Got("nil", <<>>)

NestedFormats == {"json", "yaml", "yml", "toml"}

GetCurrentValue(cfg, file) ==
    LET f == ToLower(cfg.format)
    IN IF f \in NestedFormats THEN getCurrentValueNested(cfg, file)
       ELSE IF f = "ini" THEN getCurrentValueINI(cfg, file)
       ELSE Got(ErrUnsupported, <<>>)

\* the process is interrupted inside the call, which then never returns
Killed == "killed"

\* "backup-copy": io.Copy fails in createBackup; "write", "sync", "close",
\* "rename": that step of atomicWrite fails; "kill": the process is
\* interrupted in atomicWrite when the temp file is complete and closed,
\* before the rename
Faults == {"none", "backup-copy", "write", "sync", "close", "rename", "kill"}

createBackup_KeepExisting(file, backup, fault) ==
    IF file.kind = "missing"
    THEN [err |-> ErrBackup, backup |-> backup, ops |-> <<>>]
    ELSE IF backup.kind # "missing"
    THEN [err |-> "nil", backup |-> backup, ops |-> <<>>]
    ELSE [err |-> "nil", backup |-> file, ops |-> <<"backup">>]

\* FileUpdater.createBackup
createBackup(file, backup, fault) ==
    IF file.kind = "missing"
    THEN [err |-> ErrBackup, backup |-> backup, ops |-> <<>>]
    ELSE IF fault = "backup-copy"
    THEN [err |-> ErrBackup, backup |-> PartialCopy, ops |-> <<"backup">>]
    ELSE [err |-> "nil", backup |-> file, ops |-> <<"backup">>]

\* os.WriteFile(filePath, data, 0644): the target is truncated, then filled
atomicWrite_InPlace(file, data, fault) ==
    IF fault = "write"
    THEN [err |-> ErrAtomicWrite, file |-> PartialCopy, ops |-> <<"write">>,
          seen |-> <<PartialCopy>>, temp |-> NoFile]
    ELSE IF fault = "kill"
    THEN [err |-> Killed, file |-> PartialCopy, ops |-> <<"write">>,
          seen |-> <<PartialCopy>>, temp |-> NoFile]
    ELSE [err |-> "nil", file |-> data, ops |-> <<"write">>,
          seen |-> <<PartialCopy, data>>, temp |-> NoFile]

\* FileUpdater.atomicWrite: CreateTemp, Write, Sync, Close, Rename.  `seen` is
\* the content at filePath after each step taken, `temp` what the call leaves
\* at the temp path: the deferred cleanup removes the temp file while
\* tempFile is not nil, that is up to a failed Close.
atomicWrite(file, data, fault) ==
    IF fault = "write"
    THEN [err |-> ErrAtomicWrite, file |-> file, ops |-> <<>>,
          seen |-> <<file, file>>, temp |-> NoFile]
    ELSE IF fault = "sync"
    THEN [err |-> ErrAtomicWrite, file |-> file, ops |-> <<>>,
          seen |-> <<file, file, file>>, temp |-> NoFile]
    ELSE IF fault = "close"
    THEN [err |-> ErrAtomicWrite, file |-> file, ops |-> <<>>,
          seen |-> <<file, file, file, file>>, temp |-> NoFile]
    ELSE IF fault = "rename"
    THEN [err |-> ErrAtomicWrite, file |-> file, ops |-> <<>>,
          seen |-> <<file, file, file, file, file>>, temp |-> data]
    ELSE IF fault = "kill"
    THEN [err |-> Killed, file |-> file, ops |-> <<>>,
          seen |-> <<file, file, file, file>>, temp |-> data]
    ELSE [err |-> "nil", file |-> data, ops |-> <<"write">>,
          seen |-> <<file, file, file, file, data>>, temp |-> NoFile]

Failed(err, file) ==
    [err |-> err, file |-> file, ops |-> <<>>, seen |-> <<>>, temp |-> NoFile]

\* updateJSON, updateYAML, updateTOML
updateNested(cfg, file, newIP, fault) ==
    LET d == Decode(file)
    IN IF d.err # "nil" THEN Failed(d.err, file)
       ELSE LET s == setNestedValue(d.doc, cfg.keyPath, StrV(newIP))
            IN IF s.err # "nil" THEN Failed(s.err, file)
               ELSE atomicWrite(file, Encode(s.data), fault)

updateINI(cfg, file, newIP, fault) ==
    LET d == Decode(file)
        parts == Split(cfg.keyPath, "/")
    IN IF d.err # "nil" THEN Failed(d.err, file)
       ELSE IF Len(parts) # 2 THEN Failed(ErrIniKeyPath, file)
       ELSE IF parts[2] = <<>> THEN Failed(NilKeyPanic, file)
       ELSE LET section == IF Has(d.doc, parts[1]) THEN At(d.doc, parts[1]) ELSE MapV({})
                updated == Put(d.doc, parts[1], Put(section, parts[2], StrV(newIP)))
            IN atomicWrite(file, Encode(updated), fault)

SkipWrite_Never(currentValue, processedIP) == FALSE

\* currentValue == processedIP
SkipWrite(currentValue, processedIP) == currentValue = processedIP

Outcome(file, backup, result, ops, value, warnings, seen, temp) ==
    [file |-> file, backup |-> backup, result |-> result, ops |-> ops,
     value |-> value, warnings |-> warnings, seen |-> seen, temp |-> temp]

BackupFailed_Ignored(err) == FALSE

\* UpdateIP: `if err := f.createBackup(); err != nil`
BackupFailed(err) == err # "nil"

\* FileUpdater.UpdateIP(newIP) on the given file system, with the fault the
\* file system injects into this call
UpdateIP(cfg, file, backup, newIP, fault) ==
    LET cur == GetCurrentValue(cfg, file)
        p == processIPWithMask(cur.s, newIP)
        value == IF cur.err = "nil" THEN p.value ELSE newIP
        warnings == IF cur.err = "nil" THEN p.warnings ELSE <<>>
    IN IF cur.err = NilKeyPanic
       THEN Outcome(file, backup, NilKeyPanic, <<>>, newIP, <<>>, <<>>, NoFile)
       ELSE IF cur.err = "nil" /\ SkipWrite(cur.s, p.value)
       THEN Outcome(file, backup, "nil", <<>>, value, warnings, <<>>, NoFile)
       ELSE LET b == IF cfg.backup THEN createBackup(file, backup, fault)
                     ELSE [err |-> "nil", backup |-> backup, ops |-> <<>>]
                f == ToLower(cfg.format)
            IN IF BackupFailed(b.err)
               THEN Outcome(file, b.backup, ErrBackup, b.ops, value, warnings, <<>>, NoFile)
               ELSE LET u == IF f \in NestedFormats THEN updateNested(cfg, file, value, fault)
                             ELSE IF f = "ini" THEN updateINI(cfg, file, value, fault)
                             ELSE Failed(ErrUnsupported, file)
                    IN Outcome(u.file, b.backup, u.err, b.ops \o u.ops, value, warnings,
                               u.seen, u.temp)

\* Inputs of the file model

\* addresses the detector can hand over (detector.isValidIP accepts all three;
\* net.ParseIP rejects the last)
IP_A == <<"1", ".", "1", ".", "1", ".", "1">>

IP_B == <<"2", ".", "2", ".", "2", ".", "2">>

IP_Big == <<"9", "9", "9", ".", "1", ".", "1", ".", "1">>

NewIPs == {IP_A, IP_B, IP_Big}

\* strings a hand-written file may hold at the key
StoredStrings ==
    {IP_A,
     IP_A \o <<"/", "2", "4">>,
     <<"x", "/", "8">>,
     <<"/", "2", "4">>,
     <<"1", "/", "2", "/", "3">>,
     <<"1", "/", "2", "x">>,
     <<>>}

KeyS == <<"s">>

KeyK == <<"k">>

KeyPaths == {KeyK, KeyS, KeyS \o <<"/">> \o KeyK, KeyS \o <<"/">> \o KeyK \o <<"/">> \o KeyK}

Formats == {"json", "Yaml", "toml", "ini", "xml"}

\* a key path whose key segment is empty
PathNoKey == KeyS \o <<"/">>

FileCfgs ==
    [format : Formats, keyPath : KeyPaths, backup : BOOLEAN]
    \cup [format : {"ini"}, keyPath : {PathNoKey}, backup : BOOLEAN]

Doc(es) == MapV(es)

Leaves == {StrV(s) : s \in StoredStrings} \cup {NumV}

\* documents every nested format can hold
PlainDocs ==
    {Doc({KV(KeyS, MapV({KV(KeyK, v)}))}) : v \in Leaves}
    \cup {Doc({KV(KeyK, StrV(IP_A \o <<"/", "2", "4">>))}), Doc({KV(KeyK, NumV)})}
    \cup {Doc({KV(KeyS, MapV({KV(KeyK, MapV({KV(KeyK, StrV(IP_A))}))}))}),
          Doc({KV(KeyS, StrV(IP_A))}),
          Doc({})}

\* documents with a null in them, and the null document itself: JSON and YAML only
NullDocs == {Doc({KV(KeyS, NullV)}), Doc({KV(KeyS, MapV({KV(KeyK, NullV)}))}), NilMapV}

\* a few of the documents above, for the formats that share JSON's code path
FewDocs ==
    {Doc({KV(KeyS, MapV({KV(KeyK, StrV(IP_A \o <<"/", "2", "4">>))}))}),
     Doc({KV(KeyS, MapV({KV(KeyK, NumV)}))}),
     Doc({KV(KeyS, StrV(IP_A))}),
     Doc({})}

\* INI documents: sections of string-valued keys
IniDocs ==
    {Doc({KV(KeyS, MapV({KV(KeyK, StrV(s))}))}) :
        s \in {IP_A, IP_A \o <<"/", "2", "4">>, <<"x", "/", "8">>, <<>>}}
    \cup {Doc({KV(KeyS, MapV({}))}), Doc({KV(KeyK, MapV({KV(KeyK, StrV(IP_A))}))}), Doc({})}

DocsFor(format) ==
    LET f == ToLower(format)
    IN CASE f = "json" -> PlainDocs \cup NullDocs
         [] f \in {"yaml", "yml"} -> FewDocs \cup NullDocs
         [] f = "toml" -> FewDocs
         [] f = "ini" -> IniDocs
         [] OTHER -> {}

FilesFor(format) == {Text(d, "original") : d \in DocsFor(format)} \cup {Garbage, NoFile}

NoCall ==
    [called |-> FALSE, ip |-> <<>>, fault |-> "none", result |-> "none", ops |-> <<>>,
     value |-> <<>>, warnings |-> <<>>, preFile |-> NoFile, preBackup |-> NoFile,
     repeated |-> FALSE, seen |-> <<>>, temp |-> NoFile,
     retried |-> FALSE, runStart |-> NoFile]

\* the file side while only the DNS side is exercised
FileIdle ==
    /\ fileCfg = [format |-> "", keyPath |-> <<>>, backup |-> FALSE]
    /\ fsFile = NoFile
    /\ fsBackup = NoFile
    /\ fileCall = NoCall

----------------------------------------------------------------------------
(* Logging: the log statements of UpdateDNSRecord and UpdateIP.  A log
   statement is named by the line of its first logger call. *)

NilLogger == "nil"

SomeLogger == "set"

Loggers == {NilLogger, SomeLogger}

LoggerGuard_Absent(logger) == TRUE

\* if dm.logger != nil { ... } / if fu.Logger != nil { ... }
LoggerGuard(logger) == logger # NilLogger

\* one guarded log statement: a method call on a nil Logger interface panics
LogAt(logger, site) ==
    IF ~LoggerGuard(logger) THEN [panic |-> FALSE, lines |-> <<>>]
    ELSE IF logger = NilLogger THEN [panic |-> TRUE, lines |-> <<>>]
    ELSE [panic |-> FALSE, lines |-> <<site>>]

JoinLogs(first, rest) ==
    IF first.panic THEN first
    ELSE [panic |-> rest.panic, lines |-> first.lines \o rest.lines]

RECURSIVE LogAll(_, _)
LogAll(logger, sites) ==
    IF sites = <<>> THEN [panic |-> FALSE, lines |-> <<>>]
    ELSE JoinLogs(LogAt(logger, Head(sites)), LogAll(logger, Tail(sites)))

\* the log statements around the provider call of a call-log entry: the two
\* between SetCredentials and GetRecords, the ones on the result of
\* GetRecords, and the one on the result of UpdateRecord
DNSLogSiteOf(entry) ==
    CASE entry.op = "SetCredentials" -> <<"interface.go:69", "interface.go:74">>
      [] entry.op = "GetRecords" ->
            IF entry.err # "nil" THEN <<"interface.go:82", "interface.go:83">>
            ELSE <<"interface.go:88">>
      [] entry.op = "UpdateRecord" ->
            IF entry.err # "nil" THEN <<"interface.go:132">> ELSE <<"interface.go:138">>
      [] OTHER -> <<>>

\* the log statements of one pass of the record loop before UpdateRecord:
\* the record is announced, then found and unchanged (skipped), found and
\* different, or not found
LookupLogSites(m, k, ip) ==
    <<"interface.go:104">>
    \o (IF k \notin DOMAIN m THEN <<"interface.go:126">>
        ELSE <<"interface.go:111">>
             \o (IF m[k] = ip THEN <<"interface.go:116">> ELSE <<"interface.go:122">>))

\* the log statements of the record loop from record i on; ups are the
\* UpdateRecord calls the loop makes from there, in order
RECURSIVE RecordLoopSites(_, _, _, _, _)
RecordLoopSites(t, ip, m, i, ups) ==
    IF i > Len(t.records) THEN <<>>
    ELSE LET k == LookupKey(t.records[i].name, t.records[i].type)
         IN LookupLogSites(m, k, ip)
            \o (IF ShouldSkip(m, k, ip) THEN RecordLoopSites(t, ip, m, i + 1, ups)
                ELSE IF ups = <<>> THEN <<>>
                ELSE DNSLogSiteOf(Head(ups))
                     \o (IF StopOnError(Head(ups).err) THEN <<>>
                         ELSE RecordLoopSites(t, ip, m, i + 1, Tail(ups))))

\* the log statements a call with this call log reaches, in order
DNSLogSites(t, ip, log) ==
    LET fetches == SelectSeq(log, LAMBDA e : e.op = "GetRecords")
        ups == SelectSeq(log, LAMBDA e : e.op = "UpdateRecord")
        heads == SelectSeq(log, LAMBDA e : e.op # "UpdateRecord")
        m == IF fetches = <<>> THEN EmptyMap
             ELSE RecordsMapOf(Fetched(fetches[1].recs, fetches[1].err))
    IN DNSLogSiteOf(heads[1])
       \o (IF Len(heads) > 1 THEN DNSLogSiteOf(heads[2]) ELSE <<>>)
       \o RecordLoopSites(t, ip, m, 1, ups)

\* the log statements DNSManager.UpdateDNSRecord(t, ip) reaches in a call that
\* ends as `out`
DNSSitesReached(t, ip, out) ==
    IF out.result = ErrProviderNotFound /\ out.log = <<>>
    THEN <<"interface.go:56">>
    ELSE DNSLogSites(t, ip, out.log)

\* what a call does that would end as `out` if no log statement panicked, given
\* what its log statements do
LoggedDNSCall(z, cr, out, logged) ==
    IF logged.panic
    THEN \* the first log statement is reached before GetRecords
         [zone |-> z, creds |-> IF out.log = <<>> THEN cr ELSE out.creds,
          log |-> IF out.log = <<>> THEN <<>> ELSE <<out.log[1]>>,
          result |-> Panic, lines |-> <<>>, loggerPanic |-> TRUE]
    ELSE [zone |-> out.zone, creds |-> out.creds, log |-> out.log,
          result |-> out.result, lines |-> logged.lines, loggerPanic |-> FALSE]

WithDNSLogger(logger, t, ip, z, cr, out) ==
    LoggedDNSCall(z, cr, out, LogAll(logger, DNSSitesReached(t, ip, out)))

\* DNSManager.UpdateDNSRecord of a manager whose logger field holds `logger`
UpdateDNSRecordLogging(logger, t, ip, z, cr, fetchOK, failAt) ==
    WithDNSLogger(logger, t, ip, z, cr, UpdateDNSRecord(t, ip, z, cr, fetchOK, failAt))

\* the Warnf of processIPWithMask for a warning: in the branch of a current
\* value with a mask, or in the branch of one without
WarningLogSite(who, masked) ==
    IF masked
    THEN (IF who = "current" THEN "part_004:414" ELSE "part_004:421")
    ELSE (IF who = "current" THEN "part_004:431" ELSE "part_004:438")

\* the log statements FileUpdater.UpdateIP reaches in a call that read `cur`
\* and ends as `out`
FileLogSites(cur, out) ==
    <<"part_004:46">>
    \o (IF cur.err = NilKeyPanic THEN <<>>
        ELSE IF cur.err # "nil" THEN <<"part_004:71", "part_004:72">>
        ELSE <<"part_004:53">>
             \o [i \in 1..Len(out.warnings) |->
                    WarningLogSite(out.warnings[i], CidrMatch(cur.s).matched)]
             \o (IF out.ops = <<>> /\ out.result = "nil" THEN <<"part_004:60">>
                 ELSE <<"part_004:66">>))
    \o (IF out.ops = <<>> /\ out.result = "nil" /\ cur.err = "nil" THEN <<>>
        ELSE IF out.result \in {ErrBackup, Panic, NilKeyPanic, Killed} THEN <<>>
        ELSE IF out.result # "nil" THEN <<"part_004:99">>
        ELSE <<"part_004:105">>)

LoggedFileCall(file, backup, out, logged) ==
    IF logged.panic
    THEN \* the first log statement is the first statement of UpdateIP
         [file |-> file, backup |-> backup, result |-> Panic, ops |-> <<>>,
          lines |-> <<>>, loggerPanic |-> TRUE]
    ELSE [file |-> out.file, backup |-> out.backup, result |-> out.result,
          ops |-> out.ops, lines |-> logged.lines, loggerPanic |-> FALSE]

WithFileLogger(logger, file, backup, cur, out) ==
    LoggedFileCall(file, backup, out, LogAll(logger, FileLogSites(cur, out)))

\* FileUpdater.UpdateIP of a FileUpdater whose Logger field holds `logger`
UpdateIPLogging(logger, cfg, file, backup, newIP, fault) ==
    WithFileLogger(logger, file, backup, GetCurrentValue(cfg, file),
                   UpdateIP(cfg, file, backup, newIP, fault))

----------------------------------------------------------------------------
(* Updater: error texts.  An error is modelled by the text err.Error() gives,
   one character per element; the nil error is the empty text. *)

\* ErrProviderNotFound.Error()
Txt_ProviderNotFound ==
    <<"D", "N", "S", " ", "p", "r", "o", "v", "i", "d", "e", "r", " ", "n", "o", "t", " ",
      "f", "o", "u", "n", "d">>

\* ErrRecordNotFound.Error()
Txt_RecordNotFound ==
    <<"D", "N", "S", " ", "r", "e", "c", "o", "r", "d", " ", "n", "o", "t", " ", "f", "o",
      "u", "n", "d">>

\* an adapter error carrying the message the API sent
Txt_ApiThrottled ==
    <<"a", "l", "i", "y", "u", "n", " ", "A", "P", "I", " ", "e", "r", "r", "o", "r", ":",
      " ", "T", "h", "r", "o", "t", "t", "l", "i", "n", "g", " ", "-", " ", "f", "l", "o",
      "w", " ", "c", "o", "n", "t", "r", "o", "l">>

\* an adapter error carrying the message the API sent
Txt_ApiUnauthorized ==
    <<"a", "l", "i", "y", "u", "n", " ", "A", "P", "I", " ", "e", "r", "r", "o", "r", ":",
      " ", "F", "o", "r", "b", "i", "d", "d", "e", "n", " ", "-", " ", "u", "n", "a", "u",
      "t", "h", "o", "r", "i", "z", "e", "d">>

\* an atomicWrite error
Txt_TempWriteNoSpace ==
    <<"f", "a", "i", "l", "e", "d", " ", "t", "o", " ", "w", "r", "i", "t", "e", " ", "t",
      "o", " ", "t", "e", "m", "p", " ", "f", "i", "l", "e", ":", " ", "w", "r", "i", "t",
      "e", " ", "f", ":", " ", "n", "o", " ", "s", "p", "a", "c", "e", " ", "l", "e", "f",
      "t", " ", "o", "n", " ", "d", "e", "v", "i", "c", "e">>

\* an atomicWrite error
Txt_TempCreateDenied ==
    <<"f", "a", "i", "l", "e", "d", " ", "t", "o", " ", "c", "r", "e", "a", "t", "e", " ",
      "t", "e", "m", "p", " ", "f", "i", "l", "e", ":", " ", "o", "p", "e", "n", " ", "f",
      ":", " ", "p", "e", "r", "m", "i", "s", "s", "i", "o", "n", " ", "d", "e", "n", "i",
      "e", "d">>

\* setNestedValue error
Txt_InvalidPath ==
    <<"i", "n", "v", "a", "l", "i", "d", " ", "p", "a", "t", "h", " ", "a", "t", " ", "k",
      "e", "y", " ", "s", " ", "(", "s", "t", "e", "p", " ", "1", ")">>

\* updateINI error
Txt_IniKeyPath ==
    <<"i", "n", "v", "a", "l", "i", "d", " ", "k", "e", "y", " ", "p", "a", "t", "h", " ",
      "f", "o", "r", " ", "I", "N", "I", " ", "f", "o", "r", "m", "a", "t", ":", " ", "k",
      " ", "(", "e", "x", "p", "e", "c", "t", "e", "d", ":", " ", "s", "e", "c", "t", "i",
      "o", "n", "/", "k", "e", "y", ")">>

\* UpdateIP / ValidateFile error
Txt_UnsupportedFormat ==
    <<"u", "n", "s", "u", "p", "p", "o", "r", "t", "e", "d", " ", "f", "i", "l", "e", " ",
      "f", "o", "r", "m", "a", "t", ":", " ", "x", "m", "l">>

\* os error for a missing file
Txt_NoSuchFile ==
    <<"o", "p", "e", "n", " ", "f", ":", " ", "n", "o", " ", "s", "u", "c", "h", " ", "f",
      "i", "l", "e", " ", "o", "r", " ", "d", "i", "r", "e", "c", "t", "o", "r", "y">>

\* decoder error
Txt_ParseError ==
    <<"i", "n", "v", "a", "l", "i", "d", " ", "c", "h", "a", "r", "a", "c", "t", "e", "r",
      " ", "'", "x", "'", " ", "l", "o", "o", "k", "i", "n", "g", " ", "f", "o", "r", " ",
      "b", "e", "g", "i", "n", "n", "i", "n", "g", " ", "o", "f", " ", "v", "a", "l", "u",
      "e">>

\* prefix UpdateIP puts before a createBackup error
Txt_BackupFailed ==
    <<"f", "a", "i", "l", "e", "d", " ", "t", "o", " ", "c", "r", "e", "a", "t", "e", " ",
      "b", "a", "c", "k", "u", "p", ":", " ">>

\* prefix updateFileWithRetry puts before a ValidateFile error
Txt_ValidationFailed ==
    <<"f", "i", "l", "e", " ", "v", "a", "l", "i", "d", "a", "t", "i", "o", "n", " ", "f",
      "a", "i", "l", "e", "d", ":", " ">>

\* ValidateFile error
Txt_FileDoesNotExist ==
    <<"f", "i", "l", "e", " ", "d", "o", "e", "s", " ", "n", "o", "t", " ", "e", "x", "i",
      "s", "t", ":", " ", "f">>

\* updateDNSWithRetry, attempts exhausted
Txt_DNSFailedAfter ==
    <<"D", "N", "S", " ", "u", "p", "d", "a", "t", "e", " ", "f", "a", "i", "l", "e", "d",
      " ", "a", "f", "t", "e", "r", " ">>

\* updateFileWithRetry, attempts exhausted
Txt_FileFailedAfter ==
    <<"f", "i", "l", "e", " ", "u", "p", "d", "a", "t", "e", " ", "f", "a", "i", "l", "e",
      "d", " ", "a", "f", "t", "e", "r", " ">>

\* updateDNSWithRetry / updateFileWithRetry, attempts exhausted
Txt_Attempts ==
    <<" ", "a", "t", "t", "e", "m", "p", "t", "s">>

\* the Go runtime's message for a write into a nil map
Txt_NilMapPanic ==
    <<"a", "s", "s", "i", "g", "n", "m", "e", "n", "t", " ", "t", "o", " ", "e", "n", "t",
      "r", "y", " ", "i", "n", " ", "n", "i", "l", " ", "m", "a", "p">>

NoError == <<>>

DecimalDigits == <<"0", "1", "2", "3", "4", "5", "6", "7", "8", "9">>

\* fmt's %d
RECURSIVE Itoa(_)
Itoa(n) ==
    IF n < 0 THEN <<"-">> \o Itoa(0 - n)
    ELSE IF n < 10 THEN <<DecimalDigits[n + 1]>>
    ELSE Itoa(n \div 10) \o <<DecimalDigits[(n % 10) + 1]>>

\* texts an adapter returns for a request the provider's API did not accept
ApiErrorTexts == {Txt_ApiThrottled, Txt_ApiUnauthorized}

\* texts atomicWrite returns when the file system refuses a step
IoErrorTexts == {Txt_TempWriteNoSpace, Txt_TempCreateDenied}

\* err.Error() of the error DNSManager.UpdateDNSRecord returned
DNSErrorText(result, apiText) ==
    CASE result = "nil" -> NoError
      [] result = ErrProviderNotFound -> Txt_ProviderNotFound
      [] result = ErrRecordNotFound -> Txt_RecordNotFound
      [] OTHER -> apiText

\* err.Error() of the error FileUpdater.UpdateIP returned
FileErrorText(result, ioText) ==
    CASE result = "nil" -> NoError
      [] result = ErrBackup -> Txt_BackupFailed \o Txt_NoSuchFile
      [] result = ErrAtomicWrite -> ioText
      [] result = ErrInvalidPath -> Txt_InvalidPath
      [] result = ErrIniKeyPath -> Txt_IniKeyPath
      [] result = ErrUnsupported -> Txt_UnsupportedFormat
      [] result = ErrNoFile -> Txt_NoSuchFile
      [] result = ErrParse -> Txt_ParseError
      [] result = Panic -> Txt_NilMapPanic

----------------------------------------------------------------------------
(* Updater: retry policy *)

nonRetryableErrors ==
    <<<<"i", "n", "v", "a", "l", "i", "d", " ", "c", "r", "e", "d", "e", "n", "t", "i", "a", "l", "s">>,
      <<"u", "n", "a", "u", "t", "h", "o", "r", "i", "z", "e", "d">>,
      <<"f", "i", "l", "e", " ", "n", "o", "t", " ", "f", "o", "u", "n", "d">>,
      <<"p", "e", "r", "m", "i", "s", "s", "i", "o", "n", " ", "d", "e", "n", "i", "e", "d">>,
      <<"i", "n", "v", "a", "l", "i", "d", " ", "f", "o", "r", "m", "a", "t">>,
      <<"u", "n", "s", "u", "p", "p", "o", "r", "t", "e", "d">>>>

containsSubstring(s, substr) ==
    \E i \in 0..(Len(s) - Len(substr)) : SubSeq(s, i + 1, i + Len(substr)) = substr

containsIgnoreCase_WholeOnly(s, substr) == s = substr

containsIgnoreCase(s, substr) ==
    /\ Len(s) >= Len(substr)
    /\ \/ s = substr
       \/ /\ Len(s) > Len(substr)
          /\ \/ SubSeq(s, 1, Len(substr)) = substr
             \/ SubSeq(s, Len(s) - Len(substr) + 1, Len(s)) = substr
             \/ containsSubstring(s, substr)

isNonRetryableError_Never(err) == FALSE

isNonRetryableError(err) ==
    \E i \in 1..Len(nonRetryableErrors) : containsIgnoreCase(err, nonRetryableErrors[i])

\* the ceiling that stands for "no limit"
RetryCeiling == 999999

EffectiveMaxRetries_NoCeiling(maxRetries) == maxRetries

\* maxRetries as the retry loops use it
EffectiveMaxRetries(maxRetries) == IF maxRetries = -1 THEN RetryCeiling ELSE maxRetries

LoopContinues_Exclusive(attempt, maxRetries) == attempt < maxRetries

\* the loop condition of both retry loops
LoopContinues(attempt, maxRetries) == attempt <= maxRetries

\* the error a retry loop returns when its loop condition fails
ExhaustedError(prefix, maxRetries) == prefix \o Itoa(maxRetries + 1) \o Txt_Attempts

\* FileUpdater.ValidateFile
ValidateFile(cfg, file) ==
    LET f == ToLower(cfg.format)
    IN IF file.kind = "missing" THEN Txt_FileDoesNotExist
       ELSE IF f \in NestedFormats \/ f = "ini"
       THEN FileErrorText(Decode(file).err, NoError)
       ELSE Txt_UnsupportedFormat

----------------------------------------------------------------------------
(* Updater: its state while no UpdateAll call is modelled *)

NotStarted == [pc |-> "idle", idx |-> 0, attempt |-> 0, validated |-> FALSE,
               ip |-> [dns |-> NoIP, file |-> <<>>]]

NotReturned == [done |-> FALSE, errors |-> <<>>, isNil |-> TRUE]

NoAdapter == [provider |-> "", op |-> "none"]

NoRetry == [kind |-> "", pc |-> "idle"]

NoDaemon == [pc |-> "idle"]

NoClassified == [pc |-> "idle"]

NoDNSTest == [pc |-> "idle"]

NoProbe ==
    [called |-> FALSE, op |-> "", logger |-> NilLogger, lines |-> <<>>, loggerPanic |-> FALSE,
     did |-> <<>>, twinLines |-> <<>>, twinPanic |-> FALSE, twinDid |-> <<>>]

\* the updater while only DNSManager or FileUpdater is exercised
CycleIdle ==
    /\ config = [dns |-> <<>>, files |-> <<>>, maxRetries |-> 0, interval |-> 0]
    /\ zones = <<>>
    /\ mgrCreds = [p \in Providers |-> NoCred]
    /\ disk = <<>>
    /\ run = NotStarted
    /\ events = <<>>
    /\ errs = [dns |-> <<>>, files |-> <<>>]
    /\ returned = NotReturned

\* no provider adapter and no retry loop is exercised on its own
\* main is not exercised
MainIdle == daemon = NoDaemon /\ classified = NoClassified /\ dnsTest = NoDNSTest

PartsIdle == adapter = NoAdapter /\ retry = NoRetry /\ MainIdle

----------------------------------------------------------------------------
(* DNS: state machine *)

DNSTargets ==
    [provider : Providers \cup {UnregisteredProvider},
     token : {c.token : c \in CredChoices},
     accessKey : {c.accessKey : c \in CredChoices},
     secretKey : {c.secretKey : c \in CredChoices},
     records : SeqsUpTo(DesiredRecord, MaxRecords)]

InitDNS ==
    /\ dnsTarget \in {t \in DNSTargets :
            [token |-> t.token, accessKey |-> t.accessKey, secretKey |-> t.secretKey] \in CredChoices}
    /\ zone \in SeqsUpTo(ZoneRecord, MaxZone)
    /\ creds = [p \in Providers |-> NoCred]
    /\ dnsIP = NoIP
    /\ dnsLog = <<>>
    /\ dnsResult = "none"
    /\ repeated = FALSE
    /\ tampered = FALSE
    /\ dnsCall = NoDNSCall
    /\ dnsSent = <<>>
    /\ FileIdle
    /\ CycleIdle
    /\ PartsIdle
    /\ probe = NoProbe

\* a provider's API accepts no request that carries an empty credential
CanAccept(t, accepted) == CredentialsFor(t).a = "" => ~accepted

\* DNSManager.UpdateDNSRecord(dnsTarget, ip) is called: GetProvider,
\* SetCredentials and GetRecords, up to the record loop.  A call for an
\* unregistered provider or without records returns here.
BeginUpdateDNSRecord ==
    \E ip \in IPs, fetchOK \in BOOLEAN :
        /\ dnsCall = NoDNSCall
        /\ CanAccept(dnsTarget, fetchOK)
        /\ dnsIP' = ip
        /\ repeated' = (~tampered /\ dnsResult = "nil" /\ dnsIP = ip)
        /\ tampered' = FALSE
        /\ IF ~GetProvider(dnsTarget.provider)
           THEN /\ dnsLog' = <<>>
                /\ dnsSent' = <<>>
                /\ dnsResult' = ErrProviderNotFound
                /\ dnsCall' = NoDNSCall
                /\ UNCHANGED <<zone, creds>>
           ELSE LET c == CredentialsFor(dnsTarget)
                    cr == SetCredentials(creds, dnsTarget.provider, c.a, c.b)
                    f == FetchStep(dnsTarget, zone, fetchOK, c, cr)
                IN /\ creds' = cr
                   /\ dnsLog' = f.log
                   /\ dnsSent' = SentBy("GetRecords", f.sent)
                   /\ UNCHANGED zone
                   /\ IF dnsTarget.records = <<>>
                      THEN dnsResult' = "nil" /\ dnsCall' = NoDNSCall
                      ELSE /\ dnsResult' = Running
                           /\ dnsCall' = [pc |-> "records", m |-> f.m, idx |-> 1]
        /\ UNCHANGED dnsTarget
        /\ UNCHANGED fileVars
        /\ UNCHANGED <<cycleVars, probe, partVars>>

\* the running call is in its loop over updater.Records, UpdateRecord has
\* returned err for record idx (or the record was skipped, err "nil"): the
\* call returns on an error and after the last record
AfterRecord(err) ==
    IF StopOnError(err)
    THEN dnsResult' = err /\ dnsCall' = NoDNSCall
    ELSE IF dnsCall.idx = Len(dnsTarget.records)
    THEN dnsResult' = "nil" /\ dnsCall' = NoDNSCall
    ELSE /\ dnsResult' = dnsResult
         /\ dnsCall' = [pc |-> "records", m |-> dnsCall.m, idx |-> dnsCall.idx + 1]

\* the n-th request of the UpdateRecord call for record idx reaches the
\* provider's API, which answers it on the records it holds by now; the
\* call waits for the next answer, or has returned and the loop goes on
SendUpdateRequest(n, reply, picked) ==
    LET r == dnsTarget.records[dnsCall.idx]
        q == UpdateRecordRequest(dnsTarget.provider, zone, r.name, r.type, dnsIP,
                                 n, reply, picked)
    IN /\ CanAccept(dnsTarget, reply = "ok")
       /\ zone' = q.zone
       /\ dnsSent' = dnsSent \o SentBy("UpdateRecord", <<q.sent>>)
       /\ IF q.over
          THEN /\ dnsLog' = Append(dnsLog, Entry("UpdateRecord", dnsTarget.provider,
                                                 r.name, r.type, dnsIP, q.err, <<>>))
               /\ AfterRecord(q.err)
          ELSE /\ dnsLog' = dnsLog
               /\ dnsResult' = dnsResult
               /\ dnsCall' = [pc |-> "UpdateRecord", m |-> dnsCall.m, idx |-> dnsCall.idx,
                              sent |-> n, picked |-> q.picked]

\* the running call is at the head of its loop over updater.Records: the
\* record is skipped, or provider.UpdateRecord is called and sends its
\* first request
ProcessRecord ==
    \E reply \in ApiReplies :
        /\ dnsCall.pc = "records"
        /\ LET r == dnsTarget.records[dnsCall.idx]
           IN IF ShouldSkip(dnsCall.m, LookupKey(r.name, r.type), dnsIP)
              THEN /\ AfterRecord("nil")
                   /\ UNCHANGED <<zone, dnsLog, dnsSent>>
              ELSE SendUpdateRequest(1, reply, 0)
        /\ UNCHANGED <<dnsTarget, creds, dnsIP, repeated, tampered>>
        /\ UNCHANGED fileVars
        /\ UNCHANGED <<cycleVars, probe, partVars>>

\* the running call waits in provider.UpdateRecord, whose last request was
\* answered: the adapter sends its next request
ContinueUpdateRecord ==
    \E reply \in ApiReplies :
        /\ dnsCall.pc = "UpdateRecord"
        /\ SendUpdateRequest(dnsCall.sent + 1, reply, dnsCall.picked)
        /\ UNCHANGED <<dnsTarget, creds, dnsIP, repeated, tampered>>
        /\ UNCHANGED fileVars
        /\ UNCHANGED <<cycleVars, probe, partVars>>

\* somebody else edits a record of the domain at the provider, between two
\* calls or between two requests of a call
ExternalEdit ==
    \E i \in 1..Len(zone), v \in IPs :
        /\ dnsIP # NoIP /\ ~tampered
        /\ zone[i].value # v
        /\ zone' = [zone EXCEPT ![i].value = v]
        /\ tampered' = TRUE
        /\ UNCHANGED <<dnsTarget, creds, dnsIP, dnsLog, dnsResult, repeated, dnsCall, dnsSent>>
        /\ UNCHANGED fileVars
        /\ UNCHANGED <<cycleVars, probe, partVars>>

NextDNS == BeginUpdateDNSRecord \/ ProcessRecord \/ ContinueUpdateRecord \/ ExternalEdit

SpecDNS == InitDNS /\ [][NextDNS]_vars

----------------------------------------------------------------------------
(* File: state machine *)

\* the DNS side while only the file side is exercised
DNSIdle ==
    /\ dnsTarget = [provider |-> UnregisteredProvider, token |-> "", accessKey |-> "",
                    secretKey |-> "", records |-> <<>>]
    /\ zone = <<>>
    /\ creds = [p \in Providers |-> NoCred]
    /\ dnsIP = NoIP
    /\ dnsLog = <<>>
    /\ dnsResult = "none"
    /\ repeated = FALSE
    /\ tampered = FALSE
    /\ dnsCall = NoDNSCall
    /\ dnsSent = <<>>

InitFile ==
    /\ fileCfg \in FileCfgs
    /\ fsFile \in FilesFor(fileCfg.format)
    /\ fsBackup = NoFile
    /\ fileCall = NoCall
    /\ DNSIdle
    /\ CycleIdle
    /\ PartsIdle
    /\ probe = NoProbe

\* the call before this one was given the same IP and did not succeed: this
\* call is a further attempt of the same update
FailedBefore(newIP) ==
    fileCall.called /\ fileCall.result # "nil" /\ fileCall.ip = newIP

\* what a call of UpdateIP that ends as `out` leaves behind
AfterUpdateIP(newIP, fault, out) ==
    /\ fsFile' = out.file
    /\ fsBackup' = out.backup
    /\ fileCall' = [called |-> TRUE, ip |-> newIP, fault |-> fault,
                    result |-> out.result, ops |-> out.ops, value |-> out.value,
                    warnings |-> out.warnings, preFile |-> fsFile,
                    preBackup |-> fsBackup,
                    repeated |-> (fileCall.called /\ fileCall.result = "nil"
                                  /\ fileCall.ip = newIP),
                    seen |-> out.seen, temp |-> out.temp,
                    retried |-> FailedBefore(newIP),
                    runStart |-> (IF FailedBefore(newIP) THEN fileCall.runStart
                                  ELSE fsFile)]

\* one call of FileUpdater.UpdateIP(newIP)
CallUpdateIP ==
    \E newIP \in NewIPs, fault \in Faults :
        /\ fault = "backup-copy" => fileCfg.backup
        /\ AfterUpdateIP(newIP, fault, UpdateIP(fileCfg, fsFile, fsBackup, newIP, fault))
        /\ UNCHANGED fileCfg
        /\ UNCHANGED dnsVars
        /\ UNCHANGED <<cycleVars, probe, partVars>>

NextFile == CallUpdateIP

SpecFile == InitFile /\ [][NextFile]_vars

----------------------------------------------------------------------------
(* Updater: state machine of one UpdateAll call *)

\* one registered provider and one that InitializeProviders does not register
CycleDNSPool ==
    {[provider |-> "aliyun", token |-> "", accessKey |-> "ak", secretKey |-> "sk",
      records |-> <<[name |-> "www", type |-> "A"], [name |-> "ww", type |-> "A"]>>],
     [provider |-> UnregisteredProvider, token |-> "", accessKey |-> "ak", secretKey |-> "sk",
      records |-> <<[name |-> "www", type |-> "A"]>>]}

InitialZone ==
    <<[name |-> "www", type |-> "A", value |-> "1.1.1.1"],
      [name |-> "ww", type |-> "A", value |-> "1.1.1.1"]>>

PathSK == KeyS \o <<"/">> \o KeyK

\* file targets, each with the content its file starts with
CycleFilePool ==
    {\* a well-formed target
     [cfg |-> [format |-> "json", keyPath |-> PathSK, backup |-> TRUE],
      file |-> Text(Doc({KV(KeyS, MapV({KV(KeyK, StrV(IP_A \o <<"/", "2", "4">>))}))}), "original")],
     \* the intermediate key holds a string, not a map
     [cfg |-> [format |-> "json", keyPath |-> PathSK, backup |-> FALSE],
      file |-> Text(Doc({KV(KeyS, StrV(IP_A))}), "original")],
     \* an INI key path of one segment
     [cfg |-> [format |-> "ini", keyPath |-> KeyK, backup |-> FALSE],
      file |-> Text(Doc({KV(KeyS, MapV({KV(KeyK, StrV(IP_A))}))}), "original")],
     \* an empty YAML document
     [cfg |-> [format |-> "Yaml", keyPath |-> PathSK, backup |-> FALSE],
      file |-> Text(NilMapV, "original")],
     \* no file at the path
     [cfg |-> [format |-> "toml", keyPath |-> PathSK, backup |-> FALSE],
      file |-> NoFile]}

\* the [retry] section as config.Load leaves it: interval in seconds
RetryConfigs == {[maxRetries |-> 1, interval |-> 60], [maxRetries |-> 3, interval |-> 5]}

\* the detected address, as the DNS side and the file side of the model hold it
CycleIPs == {[dns |-> "1.1.1.1", file |-> IP_A], [dns |-> "2.2.2.2", file |-> IP_B]}

DistinctSeqsUpTo(S, n) ==
    {s \in SeqsUpTo(S, n) : \A i, j \in 1..Len(s) : i # j => s[i] # s[j]}

InitCycle ==
    /\ \E d \in DistinctSeqsUpTo(CycleDNSPool, MaxTargets),
          f \in DistinctSeqsUpTo(CycleFilePool, MaxTargets),
          r \in RetryConfigs :
            /\ config = [dns |-> d, files |-> [i \in 1..Len(f) |-> f[i].cfg],
                         maxRetries |-> r.maxRetries, interval |-> r.interval]
            /\ zones = [i \in 1..Len(d) |-> InitialZone]
            /\ disk = [i \in 1..Len(f) |-> [file |-> f[i].file, backup |-> NoFile]]
    /\ mgrCreds = [p \in Providers |-> NoCred]
    /\ run = NotStarted
    /\ events = <<>>
    /\ errs = [dns |-> <<>>, files |-> <<>>]
    /\ returned = NotReturned
    /\ probe = NoProbe
    /\ PartsIdle
    /\ DNSIdle
    /\ FileIdle

Event(kind, idx, ev, n, err, calls) ==
    [kind |-> kind, idx |-> idx, ev |-> ev, n |-> n, err |-> err, calls |-> calls]

\* the entry UpdateDNS / UpdateFiles appends to its errors for a failed target
ErrMsg(idx, err) == [idx |-> idx, err |-> err]

AfterDNSTarget_StopsDNS(idx) ==
    [run EXCEPT !.pc = "files", !.idx = 1, !.attempt = 0, !.validated = FALSE]

\* where the loops of UpdateDNS and UpdateFiles go after a target
AfterDNSTarget(idx) ==
    IF idx < Len(config.dns)
    THEN [run EXCEPT !.idx = idx + 1, !.attempt = 0]
    ELSE [run EXCEPT !.pc = "files", !.idx = 1, !.attempt = 0, !.validated = FALSE]

AfterFileTarget(idx) == [run EXCEPT !.idx = idx + 1, !.attempt = 0, !.validated = FALSE]

\* time.Sleep(time.Duration(interval) * time.Second)
Sleep(interval) == [op |-> "Sleep", seconds |-> interval]

\* the pause before the n-th attempt on a target
Slept(kind, idx, n) ==
    Event(kind, idx, "sleep", n, NoError, <<Sleep(config.interval)>>)

SleepBefore_Always(kind, idx, attempt) == <<Slept(kind, idx, attempt + 1)>>

\* the pause before every attempt but the first
SleepBefore(kind, idx, attempt) ==
    IF attempt > 0 THEN <<Slept(kind, idx, attempt + 1)>> ELSE <<>>

\* UpdateAll(newIP) is called
StartUpdateAll ==
    \E ip \in CycleIPs :
        /\ run.pc = "idle"
        /\ run' = [pc |-> IF config.dns = <<>> THEN "files" ELSE "dns", idx |-> 1,
                   attempt |-> 0, validated |-> FALSE, ip |-> ip]
        /\ UNCHANGED <<config, zones, mgrCreds, disk, events, errs, returned>>
        /\ UNCHANGED <<dnsVars, fileVars, probe, partVars>>

\* updateDNSWithRetry: what follows the call of UpdateDNSRecord in the loop body
AfterDNSAttempt(i, out, err) ==
    /\ zones' = [zones EXCEPT ![i] = out.zone]
    /\ mgrCreds' = out.creds
    /\ events' = events \o SleepBefore("dns", i, run.attempt)
                        \o <<Event("dns", i, "attempt", run.attempt + 1, err, out.log)>>
    /\ IF err = NoError
       THEN /\ run' = AfterDNSTarget(i)
            /\ errs' = errs
       ELSE IF isNonRetryableError(err)
       THEN /\ run' = AfterDNSTarget(i)
            /\ errs' = [errs EXCEPT !.dns = Append(@, ErrMsg(i, err))]
       ELSE /\ run' = [run EXCEPT !.attempt = @ + 1]
            /\ errs' = errs

DNSAttemptReturned(i, apiText, out) ==
    AfterDNSAttempt(i, out, DNSErrorText(out.result, apiText))

\* updateDNSWithRetry: one pass of the loop body
AttemptDNS ==
    \E accepted \in BOOLEAN, apiText \in ApiErrorTexts :
        /\ run.pc = "dns"
        /\ LoopContinues(run.attempt, EffectiveMaxRetries(config.maxRetries))
        /\ DNSAttemptReturned(run.idx, apiText,
                UpdateDNSRecord(config.dns[run.idx], run.ip.dns, zones[run.idx], mgrCreds,
                                accepted,
                                IF accepted THEN {} ELSE 1..Len(config.dns[run.idx].records)))
        /\ UNCHANGED <<config, disk, returned>>
        /\ UNCHANGED <<dnsVars, fileVars, probe, partVars>>

\* updateDNSWithRetry: the loop condition fails
GiveUpDNS ==
    /\ run.pc = "dns"
    /\ ~LoopContinues(run.attempt, EffectiveMaxRetries(config.maxRetries))
    /\ errs' = [errs EXCEPT !.dns =
                    Append(@, ErrMsg(run.idx, ExhaustedError(Txt_DNSFailedAfter,
                                        EffectiveMaxRetries(config.maxRetries))))]
    /\ run' = AfterDNSTarget(run.idx)
    /\ UNCHANGED <<config, zones, mgrCreds, disk, events, returned>>
    /\ UNCHANGED <<dnsVars, fileVars, probe, partVars>>

AfterValidateFile_Proceeds(i, err) ==
    /\ events' = Append(events, Event("file", i, "validate", 0, err, <<>>))
    /\ run' = [run EXCEPT !.validated = TRUE]
    /\ errs' = errs

\* updateFileWithRetry: what follows the call of ValidateFile
AfterValidateFile(i, err) ==
    /\ events' = Append(events, Event("file", i, "validate", 0, err, <<>>))
    /\ IF err = NoError
       THEN /\ run' = [run EXCEPT !.validated = TRUE]
            /\ errs' = errs
       ELSE /\ run' = AfterFileTarget(i)
            /\ errs' = [errs EXCEPT !.files =
                           Append(@, ErrMsg(i, Txt_ValidationFailed \o err))]

\* updateFileWithRetry: fileupdate.New, SetLogger and ValidateFile
ValidateTarget ==
    /\ run.pc = "files" /\ run.idx <= Len(config.files) /\ ~run.validated
    /\ AfterValidateFile(run.idx, ValidateFile(config.files[run.idx], disk[run.idx].file))
    /\ UNCHANGED <<config, zones, mgrCreds, disk, returned>>
    /\ UNCHANGED <<dnsVars, fileVars, probe, partVars>>

\* updateFileWithRetry: what follows the call of UpdateIP in the loop body
AfterFileAttempt(i, out, err) ==
    /\ disk' = [disk EXCEPT ![i] = [file |-> out.file, backup |-> out.backup]]
    /\ events' = events \o SleepBefore("file", i, run.attempt)
                        \o <<Event("file", i, "attempt", run.attempt + 1, err, out.ops)>>
    /\ IF out.result = Panic
       THEN \* nothing recovers the panic: the process ends
            /\ run' = [run EXCEPT !.pc = "crashed"]
            /\ errs' = errs
       ELSE IF err = NoError
       THEN /\ run' = AfterFileTarget(i)
            /\ errs' = errs
       ELSE IF isNonRetryableError(err)
       THEN /\ run' = AfterFileTarget(i)
            /\ errs' = [errs EXCEPT !.files = Append(@, ErrMsg(i, err))]
       ELSE /\ run' = [run EXCEPT !.attempt = @ + 1]
            /\ errs' = errs

FileAttemptReturned(i, ioText, out) ==
    AfterFileAttempt(i, out, FileErrorText(out.result, ioText))

\* updateFileWithRetry: one pass of the loop body
AttemptFile ==
    \E fault \in {"none", "write"}, ioText \in IoErrorTexts :
        /\ run.pc = "files" /\ run.idx <= Len(config.files) /\ run.validated
        /\ LoopContinues(run.attempt, EffectiveMaxRetries(config.maxRetries))
        /\ FileAttemptReturned(run.idx, ioText,
                UpdateIP(config.files[run.idx], disk[run.idx].file, disk[run.idx].backup,
                         run.ip.file, fault))
        /\ UNCHANGED <<config, zones, mgrCreds, returned>>
        /\ UNCHANGED <<dnsVars, fileVars, probe, partVars>>

\* updateFileWithRetry: the loop condition fails
GiveUpFile ==
    /\ run.pc = "files" /\ run.idx <= Len(config.files) /\ run.validated
    /\ ~LoopContinues(run.attempt, EffectiveMaxRetries(config.maxRetries))
    /\ errs' = [errs EXCEPT !.files =
                    Append(@, ErrMsg(run.idx, ExhaustedError(Txt_FileFailedAfter,
                                        EffectiveMaxRetries(config.maxRetries))))]
    /\ run' = AfterFileTarget(run.idx)
    /\ UNCHANGED <<config, zones, mgrCreds, disk, events, returned>>
    /\ UNCHANGED <<dnsVars, fileVars, probe, partVars>>

\* the error UpdateDNS / UpdateFiles returns: nil, or one built from its errors
Composite(what, errors) ==
    IF Len(errors) > 0 THEN <<[what |-> what, entries |-> errors]>> ELSE <<>>

\* UpdateFiles has gone through its targets: UpdateFiles and UpdateAll return
ReturnUpdateAll ==
    /\ run.pc = "files" /\ run.idx > Len(config.files)
    /\ LET errors == Composite("DNS updates failed", errs.dns)
                        \o Composite("File updates failed", errs.files)
       IN returned' = [done |-> TRUE, errors |-> errors, isNil |-> ~(Len(errors) > 0)]
    /\ run' = [run EXCEPT !.pc = "done"]
    /\ UNCHANGED <<config, zones, mgrCreds, disk, events, errs>>
    /\ UNCHANGED <<dnsVars, fileVars, probe, partVars>>

NextCycle ==
    \/ StartUpdateAll
    \/ AttemptDNS
    \/ GiveUpDNS
    \/ ValidateTarget
    \/ AttemptFile
    \/ GiveUpFile
    \/ ReturnUpdateAll

SpecCycle == InitCycle /\ [][NextCycle]_vars

\* targets that share a provider instance: two aliyun accounts, a cloudflare
\* target with a token and one with a key pair only
SharedDNSPool ==
    {[provider |-> "aliyun", token |-> "", accessKey |-> "ak", secretKey |-> "sk",
      records |-> <<[name |-> "www", type |-> "A"]>>],
     [provider |-> "aliyun", token |-> "", accessKey |-> "ak2", secretKey |-> "sk2",
      records |-> <<[name |-> "ww", type |-> "A"]>>],
     [provider |-> "cloudflare", token |-> "tok", accessKey |-> "ak", secretKey |-> "sk",
      records |-> <<[name |-> "www", type |-> "A"]>>],
     [provider |-> "cloudflare", token |-> "", accessKey |-> "ak", secretKey |-> "sk",
      records |-> <<[name |-> "www", type |-> "A"]>>]}

\* an Updater whose DNS targets come from SharedDNSPool, with at most one file target
InitShared ==
    /\ \E d \in DistinctSeqsUpTo(SharedDNSPool, MaxTargets),
          f \in DistinctSeqsUpTo(CycleFilePool, 1) :
            /\ config = [dns |-> d, files |-> [i \in 1..Len(f) |-> f[i].cfg],
                         maxRetries |-> 1, interval |-> 60]
            /\ zones = [i \in 1..Len(d) |-> InitialZone]
            /\ disk = [i \in 1..Len(f) |-> [file |-> f[i].file, backup |-> NoFile]]
    /\ mgrCreds = [p \in Providers |-> NoCred]
    /\ run = NotStarted
    /\ events = <<>>
    /\ errs = [dns |-> <<>>, files |-> <<>>]
    /\ returned = NotReturned
    /\ probe = NoProbe
    /\ PartsIdle
    /\ DNSIdle
    /\ FileIdle

SpecShared == InitShared /\ [][NextCycle]_vars

\* one DNS target with two records, in either order, at each provider
PassTargets ==
    {[provider |-> p, token |-> "", accessKey |-> "ak", secretKey |-> "sk", records |-> r] :
        p \in Providers,
        r \in {<<[name |-> "www", type |-> "A"], [name |-> "ww", type |-> "A"]>>,
               <<[name |-> "ww", type |-> "A"], [name |-> "www", type |-> "A"]>>}}

\* an Updater with one DNS target and no file target, two retries
InitPasses ==
    /\ \E t \in PassTargets, z \in {InitialZone, SubSeq(InitialZone, 1, 1)} :
            /\ config = [dns |-> <<t>>, files |-> <<>>, maxRetries |-> 2, interval |-> 60]
            /\ zones = <<z>>
            /\ disk = <<>>
    /\ mgrCreds = [p \in Providers |-> NoCred]
    /\ run = NotStarted
    /\ events = <<>>
    /\ errs = [dns |-> <<>>, files |-> <<>>]
    /\ returned = NotReturned
    /\ probe = NoProbe
    /\ PartsIdle
    /\ DNSIdle
    /\ FileIdle

\* updateDNSWithRetry: one pass of the loop body, the provider's API
\* failing any of the pass's requests
AttemptDNSPass ==
    /\ run.pc = "dns"
    /\ LoopContinues(run.attempt, EffectiveMaxRetries(config.maxRetries))
    /\ \E fetchOK \in BOOLEAN, failAt \in SUBSET (1..Len(config.dns[run.idx].records)),
          apiText \in ApiErrorTexts :
            DNSAttemptReturned(run.idx, apiText,
                UpdateDNSRecord(config.dns[run.idx], run.ip.dns, zones[run.idx], mgrCreds,
                                fetchOK, failAt))
    /\ UNCHANGED <<config, disk, returned>>
    /\ UNCHANGED <<dnsVars, fileVars, probe, partVars>>

NextPasses == StartUpdateAll \/ AttemptDNSPass \/ GiveUpDNS \/ ReturnUpdateAll

SpecPasses == InitPasses /\ [][NextPasses]_vars

\* file targets for the validation step: one that passes, and one for each
\* way ValidateFile fails (no file, a format it does not know, content the
\* decoder rejects)
ValidateFilePool ==
    {[cfg |-> [format |-> "json", keyPath |-> PathSK, backup |-> TRUE],
      file |-> Text(Doc({KV(KeyS, MapV({KV(KeyK, StrV(IP_A))}))}), "original")],
     [cfg |-> [format |-> "toml", keyPath |-> PathSK, backup |-> TRUE], file |-> NoFile],
     [cfg |-> [format |-> "xml", keyPath |-> PathSK, backup |-> TRUE],
      file |-> Text(Doc({KV(KeyS, MapV({KV(KeyK, StrV(IP_A))}))}), "original")],
     [cfg |-> [format |-> "json", keyPath |-> PathSK, backup |-> TRUE], file |-> Garbage]}

\* values of Retry.MaxRetries: below -1, unbounded, none, one, three
ValidateRetrySettings == {-2, -1, 0, 1, 3}

\* an Updater with file targets only; the unbounded setting is taken with
\* targets that all fail validation, whose loops are never entered
InitValidate ==
    /\ \E f \in DistinctSeqsUpTo(ValidateFilePool, 2), m \in ValidateRetrySettings :
            /\ m = -1 => \A i \in 1..Len(f) : ValidateFile(f[i].cfg, f[i].file) # NoError
            /\ config = [dns |-> <<>>, files |-> [i \in 1..Len(f) |-> f[i].cfg],
                         maxRetries |-> m, interval |-> 60]
            /\ zones = <<>>
            /\ disk = [i \in 1..Len(f) |-> [file |-> f[i].file, backup |-> NoFile]]
    /\ mgrCreds = [p \in Providers |-> NoCred]
    /\ run = NotStarted
    /\ events = <<>>
    /\ errs = [dns |-> <<>>, files |-> <<>>]
    /\ returned = NotReturned
    /\ probe = NoProbe
    /\ PartsIdle
    /\ DNSIdle
    /\ FileIdle

NextValidate == StartUpdateAll \/ ValidateTarget \/ AttemptFile \/ GiveUpFile \/ ReturnUpdateAll

SpecValidate == InitValidate /\ [][NextValidate]_vars

----------------------------------------------------------------------------
(* Logging: one call of UpdateDNSRecord or UpdateIP with a logger field that is
   set or nil, next to the same call with the other logger *)

OtherLogger(logger) == IF logger = NilLogger THEN SomeLogger ELSE NilLogger

InitLogger == InitDNS \/ InitFile

\* what a probing call leaves behind
DNSProbe(ip, logger, out, twin) ==
    /\ zone' = out.zone
    /\ creds' = out.creds
    /\ dnsIP' = ip
    /\ dnsLog' = out.log
    /\ dnsResult' = out.result
    /\ probe' = [called |-> TRUE, op |-> "UpdateDNSRecord", logger |-> logger,
                 lines |-> out.lines, loggerPanic |-> out.loggerPanic,
                 did |-> <<out.log, out.result, out.zone, out.creds>>,
                 twinLines |-> twin.lines, twinPanic |-> twin.loggerPanic,
                 twinDid |-> <<twin.log, twin.result, twin.zone, twin.creds>>]

BothDNSLoggers(ip, logger, base) ==
    DNSProbe(ip, logger, WithDNSLogger(logger, dnsTarget, ip, zone, creds, base),
             WithDNSLogger(OtherLogger(logger), dnsTarget, ip, zone, creds, base))

\* DNSManager.UpdateDNSRecord(dnsTarget, ip) is called once; the API refuses
\* request number `refused` of an UpdateRecord call it does not accept
ProbeUpdateDNSRecord ==
    \E logger \in Loggers, ip \in IPs, fetchOK \in BOOLEAN,
       failAt \in SUBSET (1..Len(dnsTarget.records)), refused \in 1..3 :
        /\ ~probe.called /\ fileCfg.format = ""
        /\ CredentialsFor(dnsTarget).a = "" =>
                (~fetchOK /\ failAt = 1..Len(dnsTarget.records) /\ refused = 1)
        /\ LET q == UpdateDNSRecordSent(dnsTarget, ip, zone, creds, fetchOK, failAt, refused)
           IN q.agrees /\ dnsSent' = q.sent
        /\ BothDNSLoggers(ip, logger, UpdateDNSRecord(dnsTarget, ip, zone, creds, fetchOK, failAt))
        /\ UNCHANGED <<dnsTarget, repeated, tampered, dnsCall>>
        /\ UNCHANGED <<fileVars, cycleVars, partVars>>

FileProbe(logger, out, twin) ==
    /\ fsFile' = out.file
    /\ fsBackup' = out.backup
    /\ probe' = [called |-> TRUE, op |-> "UpdateIP", logger |-> logger,
                 lines |-> out.lines, loggerPanic |-> out.loggerPanic,
                 did |-> <<out.ops, out.result, out.file, out.backup>>,
                 twinLines |-> twin.lines, twinPanic |-> twin.loggerPanic,
                 twinDid |-> <<twin.ops, twin.result, twin.file, twin.backup>>]

BothFileLoggers(logger, cur, base) ==
    FileProbe(logger, WithFileLogger(logger, fsFile, fsBackup, cur, base),
              WithFileLogger(OtherLogger(logger), fsFile, fsBackup, cur, base))

\* FileUpdater.UpdateIP(newIP) is called once
ProbeUpdateIP ==
    \E logger \in Loggers, newIP \in NewIPs, fault \in {"none", "write"} :
        /\ ~probe.called /\ fileCfg.format # ""
        /\ BothFileLoggers(logger, GetCurrentValue(fileCfg, fsFile),
                           UpdateIP(fileCfg, fsFile, fsBackup, newIP, fault))
        /\ UNCHANGED <<fileCfg, fileCall>>
        /\ UNCHANGED <<dnsVars, cycleVars, partVars>>

NextLogger == ProbeUpdateDNSRecord \/ ProbeUpdateIP

SpecLogger == InitLogger /\ [][NextLogger]_vars

----------------------------------------------------------------------------
(* DNS: one provider adapter, call by call *)

MaxHeld == 2         \* records the provider's API holds initially in the adapter model

AdapterCreds == {[a |-> "ak", b |-> "sk"], [a |-> "tok", b |-> ""]}

\* a registered adapter, before or after a SetCredentials call, and the records
\* the provider's API holds for the domain
InitAdapter ==
    /\ \E prov \in Providers, c \in {NoCred} \cup AdapterCreds,
          z \in SeqsUpTo(ZoneRecord, MaxHeld) :
            adapter = [provider |-> prov, op |-> "none",
                       cred |-> StoredCredentials(prov, c.a, c.b), held |-> z,
                       name |-> "", type |-> "", ip |-> NoIP, before |-> z,
                       credBefore |-> StoredCredentials(prov, c.a, c.b),
                       sent |-> <<>>, err |-> "none", recs |-> <<>>, picked |-> 0,
                       sig |-> <<>>, sigAgain |-> <<>>, orders |-> <<>>, signed |-> <<>>]
    /\ retry = NoRetry
    /\ MainIdle
    /\ DNSIdle
    /\ FileIdle
    /\ CycleIdle
    /\ probe = NoProbe

\* the part of the adapter's state a call starts from
Instance == [adapter EXCEPT !.before = adapter.held, !.credBefore = adapter.cred,
                            !.name = "", !.type = "", !.ip = NoIP, !.sent = <<>>, !.err = "none",
                            !.recs = <<>>, !.picked = 0, !.sig = <<>>, !.sigAgain = <<>>,
                            !.orders = <<>>, !.signed = <<>>]

\* provider.SetCredentials(accessKey, secretKey)
AdapterSetCredentials ==
    \E c \in AdapterCreds :
        /\ adapter' = [Instance EXCEPT !.op = "SetCredentials",
                            !.cred = StoredCredentials(adapter.provider, c.a, c.b)]
        /\ UNCHANGED <<dnsVars, fileVars, cycleVars, probe, retry, mainVars>>

AfterGetRecords(reply, g) ==
    adapter' = [Instance EXCEPT !.op = "GetRecords", !.recs = g.recs, !.err = g.err,
                    !.sent = GetRecordsSent(adapter.provider, adapter.cred, reply)]

\* provider.GetRecords(domain)
AdapterGetRecords ==
    \E reply \in ApiReplies :
        /\ AfterGetRecords(reply,
                GetRecords(adapter.provider, adapter.held, adapter.cred, reply = "ok"))
        /\ UNCHANGED <<dnsVars, fileVars, cycleVars, probe, retry, mainVars>>

AfterUpdateRecord(name, type, ip, out) ==
    adapter' = [Instance EXCEPT !.op = "UpdateRecord", !.name = name, !.type = type, !.ip = ip,
                    !.held = out.zone, !.sent = out.sent, !.err = out.err,
                    !.picked = out.picked]

\* provider.UpdateRecord(domain, recordName, recordType, newIP, ttl)
AdapterUpdateRecord ==
    \E name \in Names, type \in Types, ip \in IPs, replies \in ReplySeqs :
        \* a provider's API accepts no request that carries an empty credential
        /\ adapter.cred.a = "" => \A k \in 1..3 : replies[k] = "error"
        /\ AfterUpdateRecord(name, type, ip,
                UpdateRecordSteps(adapter.provider, adapter.held, name, type, ip, replies))
        /\ UNCHANGED <<dnsVars, fileVars, cycleVars, probe, retry, mainVars>>

NextAdapter == AdapterSetCredentials \/ AdapterGetRecords \/ AdapterUpdateRecord

SpecAdapter == InitAdapter /\ [][NextAdapter]_vars

----------------------------------------------------------------------------
(* DNS: request signing of the aliyun, tencent and huawei adapters.          *)
(* A string is a sequence of fragments; a digest is a record of what was     *)
(* digested, so two digests are equal exactly when their inputs are.          *)

SigningProviders == {"aliyun", "tencent", "huawei"}

Range(s) == {s[k] : k \in 1..Len(s)}

\* the orders in which a range over a map with these keys can visit them
IterationOrders(keys) ==
    {o \in [1..Cardinality(keys) -> keys] : \A i, j \in 1..Cardinality(keys) : i # j => o[i] # o[j]}

\* the parameter names of the model in increasing byte order
ByteOrder == <<"AccessKeyId", "Action", "Domain", "Signature", "Subdomain", "Timestamp">>

\* sort.Strings left out: the keys stay in the order the range visited them
SortStrings_KeepOrder(keys) == keys

\* sort.Strings(keys)
SortStrings(keys) == SelectSeq(ByteOrder, LAMBDA k : k \in Range(keys))

\* url.QueryEscape of one fragment of a string.  A fragment is one character
\* that QueryEscape replaces, or a run of characters it leaves alone
\* (letters, digits, '-', '_', '.', '~'); an escape is the fragment "%"
\* followed by its two hexadecimal digits, so that escaping an escaped
\* string escapes the "%" again.
EscapeFragment(f) ==
    CASE f = "/" -> <<"%", "2F">>
      [] f = ":" -> <<"%", "3A">>
      [] f = "&" -> <<"%", "26">>
      [] f = "=" -> <<"%", "3D">>
      [] f = "%" -> <<"%", "25">>
      [] f = "+" -> <<"%", "2B">>
      [] f = " " -> <<"+">>
      [] OTHER -> <<f>>

\* url.QueryEscape
RECURSIVE QueryEscape(_)
QueryEscape(s) ==
    IF s = <<>> THEN <<>> ELSE EscapeFragment(Head(s)) \o QueryEscape(Tail(s))

\* strings.Join(parts, sep)
RECURSIVE Join(_, _)
Join(parts, sep) ==
    IF parts = <<>> THEN <<>>
    ELSE IF Len(parts) = 1 THEN parts[1]
    ELSE parts[1] \o <<sep>> \o Join(Tail(parts), sep)

Sha1 == "sha1"
Sha256 == "sha256"

\* hmac.New(h, key); Write(data); Sum(nil)
Hmac(h, key, data) == [mac |-> h, key |-> key, data |-> data]

\* base64.StdEncoding.EncodeToString
Base64(bytes) == [base64 |-> bytes]

\* hex.EncodeToString
HexEncode(bytes) == [hex |-> bytes]

\* sha256hex(s)
sha256hex(s) == HexEncode([hash |-> Sha256, data |-> s])

\* key=value pairs of the keys in the given order, each side escaped
QueryParts(keys, params) ==
    [k \in 1..Len(keys) |-> QueryEscape(<<keys[k]>>) \o <<"=">> \o QueryEscape(params[keys[k]])]

\* AliyunProvider.generateSignature(method, params); order is the order in
\* which the range over params visits the keys
generateSignature(secretKey, method, params, order) ==
    LET keys == SortStrings(SelectSeq(order, LAMBDA k : k # "Signature"))
        queryString == Join(QueryParts(keys, params), "&")
        stringToSign == <<method, "&">> \o QueryEscape(<<"/">>) \o <<"&">> \o QueryEscape(queryString)
    IN  Base64(Hmac(Sha1, <<secretKey, "&">>, stringToSign))

\* url.Values.Encode(): the pairs sorted by key
ValuesEncode(values, order) == Join(QueryParts(SortStrings(order), values), "&")

SecondsPerDay == 86400

\* time.Unix(timestamp, 0).UTC().Format("2006-01-02"), as the day's number
FormatDate(timestamp) == <<"day">> \o Itoa(timestamp \div SecondsPerDay)

\* TencentDNSProvider.generateAuthorization(params, timestamp)
TencentAuthorization(secretId, secretKey, params, timestamp, order) ==
    LET values == [k \in Range(order) |-> params[k]]
        hashedPayload == sha256hex(ValuesEncode(values, order))
        canonicalRequest == <<"POST", "\n", "/", "\n", "", "\n",
                              "content-type:application/x-www-form-urlencoded; charset=utf-8\nhost:dnspod.tencentcloudapi.com\n",
                              "\n", "content-type;host", "\n", hashedPayload>>
        date == FormatDate(timestamp)
        credentialScope == date \o <<"/", "dnspod", "/tc3_request">>
        stringToSign == <<"TC3-HMAC-SHA256", "\n">> \o Itoa(timestamp) \o <<"\n">> \o credentialScope
                            \o <<"\n", sha256hex(canonicalRequest)>>
        secretDate == Hmac(Sha256, <<"TC3", secretKey>>, date)
        secretService == Hmac(Sha256, secretDate, <<"dnspod">>)
        secretSigning == Hmac(Sha256, secretService, <<"tc3_request">>)
        signature == HexEncode(Hmac(Sha256, secretSigning, stringToSign))
    IN  <<"TC3-HMAC-SHA256", " Credential=", secretId, "/">> \o credentialScope
            \o <<", SignedHeaders=", "content-type;host", ", Signature=", signature>>

\* HuaweiDNSProvider.createCanonicalRequest(method, path, body, timestamp)
createCanonicalRequest(method, path, body, timestamp) ==
    <<method, "\n", path, "\n", "", "\n",
      "content-type:application/json\nhost:dns.myhuaweicloud.com\nx-sdk-date:", timestamp, "\n",
      "\n", "content-type;host;x-sdk-date", "\n", sha256hex(body)>>

\* HuaweiDNSProvider.generateAuthorization(method, path, body, timestamp)
HuaweiAuthorization(accessKey, secretKey, method, path, body, timestamp) ==
    LET stringToSign == <<"SDK-HMAC-SHA256", "\n", timestamp, "\n",
                          sha256hex(createCanonicalRequest(method, path, body, timestamp))>>
        signature == HexEncode(Hmac(Sha256, <<secretKey>>, stringToSign))
    IN  <<"SDK-HMAC-SHA256", " Access=", accessKey,
          ", SignedHeaders=content-type;host;x-sdk-date, Signature=", signature>>

\* parameter maps an aliyun request is signed with, before and after the
\* Signature parameter is set
AliyunParams ==
    {[Action |-> <<"DescribeDomainRecords">>, AccessKeyId |-> <<"ak">>,
      Timestamp |-> <<"2026-10-29T00", ":", "00", ":", "00Z">>],
     [Action |-> <<"UpdateDomainRecord">>,
      Timestamp |-> <<"2026-10-29T00", ":", "00", ":", "00Z">>, Signature |-> <<"c2ln", "=">>]}

TencentParams ==
    {[Action |-> <<"DescribeRecordList">>, Domain |-> <<"example.com">>, Subdomain |-> <<"www">>],
     [Action |-> <<"DescribeRecordList">>, Domain |-> <<"example.com">>, Subdomain |-> <<"ww">>]}

UnixTimes == {86399, 86400}

HuaweiRequests ==
    [method : {"GET", "PUT"}, path : {"/v2/zones"}, body : {<<>>, <<"{", "records", "}">>},
     timestamp : {"20261029T000000Z", "20261029T000001Z"}]

\* the signature of one request computed twice, the two ranges over the
\* parameter map visiting the keys in the orders o1 and o2
Signed(method, params, timestamp, o1, o2, sig, sigAgain) ==
    adapter' = [Instance EXCEPT !.op = "Sign", !.orders = <<o1, o2>>,
                    !.sig = sig, !.sigAgain = sigAgain,
                    !.signed = [method |-> method, params |-> params, timestamp |-> timestamp]]

AliyunSign ==
    \E method \in {"GET", "POST"}, params \in AliyunParams :
        \E o1, o2 \in IterationOrders(DOMAIN params) :
            Signed(method, params, 0, o1, o2,
                   generateSignature(adapter.cred.b, method, params, o1),
                   generateSignature(adapter.cred.b, method, params, o2))

TencentSign ==
    \E params \in TencentParams, timestamp \in UnixTimes :
        \E o1, o2 \in IterationOrders(DOMAIN params) :
            Signed("POST", params, timestamp, o1, o2,
                   TencentAuthorization(adapter.cred.a, adapter.cred.b, params, timestamp, o1),
                   TencentAuthorization(adapter.cred.a, adapter.cred.b, params, timestamp, o2))

HuaweiSign ==
    \E r \in HuaweiRequests :
        Signed(r.method, r, r.timestamp, <<>>, <<>>,
               HuaweiAuthorization(adapter.cred.a, adapter.cred.b, r.method, r.path, r.body, r.timestamp),
               HuaweiAuthorization(adapter.cred.a, adapter.cred.b, r.method, r.path, r.body, r.timestamp))

\* one signing call, made twice with the same arguments
AdapterSign ==
    /\ CASE adapter.provider = "aliyun" -> AliyunSign
         [] adapter.provider = "tencent" -> TencentSign
         [] adapter.provider = "huawei" -> HuaweiSign
         [] OTHER -> FALSE
    /\ UNCHANGED <<dnsVars, fileVars, cycleVars, probe, retry, mainVars>>

InitSign ==
    /\ InitAdapter
    /\ adapter.provider \in SigningProviders
    /\ adapter.held = <<>>

NextSign == AdapterSetCredentials \/ AdapterSign

SpecSign == InitSign /\ [][NextSign]_vars

----------------------------------------------------------------------------
(* Updater: one retry loop run to its end, for every value of Retry.MaxRetries *)

\* a network error, which the vocabulary of isNonRetryableError does not cover
Txt_Timeout == <<"i", "/", "o", " ", "t", "i", "m", "e", "o", "u", "t">>

\* Retry.MaxRetries of a loop: unbounded, none, two
RetrySettings == {-1, 0, 2}

\* what the attempts of a target can return: a target that always fails
\* with a retryable error, and one whose attempts can end any way
TargetFates == {"alwaysRetryable", "any"}

Outcomes(fate) ==
    IF fate = "alwaysRetryable" THEN {Txt_Timeout}
    ELSE {NoError, Txt_Timeout, Txt_ApiUnauthorized}

InitRetry ==
    /\ \E kind \in {"dns", "file"}, m \in RetrySettings, o \in TargetFates :
            /\ m = -1 => o = "alwaysRetryable"
            /\ retry = [kind |-> kind, pc |-> "loop", maxRetries |-> m, fate |-> o,
                        attempt |-> 0, made |-> 0, slept |-> 0, err |-> NoError]
    /\ adapter = NoAdapter
    /\ MainIdle
    /\ DNSIdle
    /\ FileIdle
    /\ CycleIdle
    /\ probe = NoProbe

\* one pass of the loop body: the sleep before every attempt but the
\* first, the call, and what the loop does with the error it returned
RetryAttempt ==
    \E err \in Outcomes(retry.fate) :
        /\ retry.pc = "loop"
        /\ LoopContinues(retry.attempt, EffectiveMaxRetries(retry.maxRetries))
        /\ retry' = IF err = NoError \/ isNonRetryableError(err)
                     THEN [retry EXCEPT !.pc = "returned", !.err = err, !.made = @ + 1,
                                        !.slept = IF retry.attempt > 0 THEN @ + 1 ELSE @]
                     ELSE [retry EXCEPT !.attempt = @ + 1, !.made = @ + 1,
                                        !.slept = IF retry.attempt > 0 THEN @ + 1 ELSE @]
        /\ UNCHANGED <<dnsVars, fileVars, cycleVars, probe, adapter, mainVars>>

\* the loop condition fails: the error after the loop
RetryGiveUp ==
    /\ retry.pc = "loop"
    /\ ~LoopContinues(retry.attempt, EffectiveMaxRetries(retry.maxRetries))
    /\ retry' = [retry EXCEPT !.pc = "returned",
                    !.err = ExhaustedError(IF retry.kind = "dns" THEN Txt_DNSFailedAfter
                                           ELSE Txt_FileFailedAfter,
                                           EffectiveMaxRetries(retry.maxRetries))]
    /\ UNCHANGED <<dnsVars, fileVars, cycleVars, probe, adapter, mainVars>>

NextRetry == RetryAttempt \/ RetryGiveUp

SpecRetry == InitRetry /\ [][NextRetry]_vars

\* every call of an attempt returns, so a loop that can take a step takes it
SpecRetryFair == SpecRetry /\ WF_vars(NextRetry)

----------------------------------------------------------------------------
(* main: the daemon loop around Updater.UpdateDNS and Updater.UpdateFiles *)

\* ipDetector.GetPublicIP returned an error
DetectFailed == "detect failed"

\* what ipDetector.GetPublicIP can return
Detections == IPs \cup {DetectFailed}

\* the zero value of dnsLastIP and fileLastIP
NeverUpdated == ""

\* a file target whose ValidateFile fails
InvalidFile == "invalid"

\* configurations of the daemon: each target stands for what its attempts
\* can return; config.Load turns MaxRetries 0 into -1, so 0 is not among them
DaemonConfigs ==
    [dns : {<<>>, <<"any">>, <<"any", "alwaysRetryable">>},
     files : {<<>>, <<"any">>, <<InvalidFile, "any">>},
     maxRetries : {1, 2}]

\* no UpdateDNS or UpdateFiles call has ended a target yet
NoUpdate == [ip |-> NeverUpdated, entries |-> <<>>]

NoSignal == [pc |-> "none", idx |-> 0, made |-> 0]

\* what the last step of main was and what it settled for each side
Did(step, detected) == [step |-> step, detected |-> detected, dns |-> "none", files |-> "none"]

InitDaemon ==
    /\ \E c \in DaemonConfigs :
            daemon = [pc |-> "startup", cfg |-> c, phase |-> "startup", ip |-> NeverUpdated,
                      idx |-> 0, attempt |-> 0, made |-> 0, slept |-> 0,
                      calls |-> [dns |-> NoUpdate, files |-> NoUpdate],
                      dnsLastIP |-> NeverUpdated, fileLastIP |-> NeverUpdated,
                      cancelled |-> FALSE, signalAt |-> NoSignal,
                      did |-> Did("none", NeverUpdated)]
    /\ classified = NoClassified
    /\ dnsTest = NoDNSTest
    /\ adapter = NoAdapter
    /\ retry = NoRetry
    /\ DNSIdle
    /\ FileIdle
    /\ CycleIdle
    /\ probe = NoProbe

SideOf(pc) == IF pc = "UpdateDNS" THEN "dns" ELSE "files"

Updating(d) == d.pc \in {"UpdateDNS", "UpdateFiles"}

\* the file half of a check: UpdateFiles is entered, or fileLastIP is set
\* because no file updater is configured
BeginFiles(d) ==
    IF Len(d.cfg.files) > 0
    THEN [d EXCEPT !.pc = "UpdateFiles", !.idx = 1, !.attempt = 0, !.made = 0, !.slept = 0,
                   !.did.files = "started"]
    ELSE [d EXCEPT !.pc = "select", !.fileLastIP = d.ip, !.did.files = "unconfigured"]

\* main after the DNS half: the startup check goes on with the files, a
\* tick goes back to the select
AfterDNS(d) == IF d.phase = "startup" THEN BeginFiles(d) ELSE [d EXCEPT !.pc = "select"]

\* the DNS half of a check
BeginDNS(d) ==
    IF Len(d.cfg.dns) > 0
    THEN [d EXCEPT !.pc = "UpdateDNS", !.idx = 1, !.attempt = 0, !.made = 0, !.slept = 0,
                   !.did.dns = "started"]
    ELSE AfterDNS([d EXCEPT !.dnsLastIP = d.ip, !.did.dns = "unconfigured"])

AnyFailed(entries) == \E i \in 1..Len(entries) : entries[i].end # "ok"

KeepLastIP_Never(failed, last, ip) == ip

\* dnsLastIP = currentIP / fileLastIP = currentIP, in the else branch of the error test only
KeepLastIP(failed, last, ip) == IF failed THEN last ELSE ip

\* UpdateDNS or UpdateFiles returned to main
Returned(d, side, failed) ==
    IF side = "dns"
    THEN AfterDNS([d EXCEPT !.dnsLastIP = KeepLastIP(failed, @, d.ip),
                            !.did.dns = IF failed THEN "failed" ELSE "ok"])
    ELSE [d EXCEPT !.pc = "select",
                   !.fileLastIP = KeepLastIP(failed, @, d.ip),
                   !.did.files = IF failed THEN "failed" ELSE "ok"]

\* updateDNSWithRetry or updateFileWithRetry returned: the range loop of
\* UpdateDNS / UpdateFiles takes the next target, or the function returns
EndTarget(d, side, entries) ==
    IF d.idx < Len(d.cfg[side])
    THEN [d EXCEPT !.calls[side] = [ip |-> d.ip, entries |-> entries],
                   !.idx = @ + 1, !.attempt = 0, !.made = 0, !.slept = 0]
    ELSE Returned([d EXCEPT !.calls[side] = [ip |-> d.ip, entries |-> entries]],
                  side, AnyFailed(entries))

\* the entries of the running call with the current target's added
EntriesWith(d, side, made, slept, end) ==
    (IF d.idx = 1 THEN <<>> ELSE d.calls[side].entries)
        \o <<[made |-> made, slept |-> slept, end |-> end]>>

SleptAfter(d) == IF d.attempt > 0 THEN d.slept + 1 ELSE d.slept

Interrupts_WhenCancelled(d) == d.cancelled

\* neither retry loop reads the context or the signal channel
Interrupts(d) == FALSE

\* one step of the running retry loop: the validation return, a pass of the
\* loop body (sleep, call, test of the error), or the return after the loop
TargetStep(d, side, fate, err) ==
    IF Interrupts(d) THEN [d EXCEPT !.pc = "exited"]
    ELSE IF fate = InvalidFile
    THEN EndTarget(d, side, EntriesWith(d, side, 0, 0, "invalid"))
    ELSE IF ~LoopContinues(d.attempt, EffectiveMaxRetries(d.cfg.maxRetries))
    THEN EndTarget(d, side, EntriesWith(d, side, d.made, d.slept, "exhausted"))
    ELSE IF err = NoError
    THEN EndTarget(d, side, EntriesWith(d, side, d.made + 1, SleptAfter(d), "ok"))
    ELSE IF isNonRetryableError(err)
    THEN EndTarget(d, side, EntriesWith(d, side, d.made + 1, SleptAfter(d), "terminal"))
    ELSE [d EXCEPT !.attempt = @ + 1, !.made = @ + 1, !.slept = SleptAfter(d)]

frameDaemon == UNCHANGED <<dnsVars, fileVars, cycleVars, probe, adapter, retry, classified, dnsTest>>

\* the startup check: one detection, then the DNS half and the file half
DaemonStartup ==
    \E det \in Detections :
        /\ daemon.pc = "startup"
        /\ daemon' = IF det = DetectFailed
                      THEN [daemon EXCEPT !.pc = "select", !.did = Did("startup", det)]
                      ELSE BeginDNS([daemon EXCEPT !.ip = det, !.did = Did("startup", det)])
        /\ frameDaemon

\* case <-dnsTicker.C
DaemonTickDNS ==
    \E det \in Detections :
        /\ daemon.pc = "select"
        /\ daemon' = IF det = DetectFailed
                      THEN [daemon EXCEPT !.did = Did("dnsTick", det)]
                      ELSE IF det = daemon.dnsLastIP
                      THEN [daemon EXCEPT !.did = [Did("dnsTick", det) EXCEPT !.dns = "unchanged"]]
                      ELSE BeginDNS([daemon EXCEPT !.phase = "tick", !.ip = det,
                                                   !.did = Did("dnsTick", det)])
        /\ frameDaemon

\* case <-fileTicker.C
DaemonTickFile ==
    \E det \in Detections :
        /\ daemon.pc = "select"
        /\ daemon' = IF det = DetectFailed
                      THEN [daemon EXCEPT !.did = Did("fileTick", det)]
                      ELSE IF det = daemon.fileLastIP
                      THEN [daemon EXCEPT !.did = [Did("fileTick", det) EXCEPT !.files = "unchanged"]]
                      ELSE BeginFiles([daemon EXCEPT !.phase = "tick", !.ip = det,
                                                     !.did = Did("fileTick", det)])
        /\ frameDaemon

\* the running UpdateDNS or UpdateFiles call takes its next step
DaemonTargetStep ==
    /\ Updating(daemon)
    /\ \E err \in Outcomes(daemon.cfg[SideOf(daemon.pc)][daemon.idx]) :
            daemon' = TargetStep([daemon EXCEPT !.did = Did("attempt", daemon.ip)],
                                 SideOf(daemon.pc),
                                 daemon.cfg[SideOf(daemon.pc)][daemon.idx], err)
    /\ frameDaemon

\* the signal goroutine: a signal arrives and the context is cancelled,
\* wherever main is
DaemonSignal ==
    /\ daemon.pc # "exited"
    /\ ~daemon.cancelled
    /\ daemon' = [daemon EXCEPT !.cancelled = TRUE,
                     !.signalAt = [pc |-> daemon.pc, idx |-> daemon.idx, made |-> daemon.made]]
    /\ frameDaemon

\* case <-ctx.Done(): main returns
DaemonShutdown ==
    /\ daemon.pc = "select"
    /\ daemon.cancelled
    /\ daemon' = [daemon EXCEPT !.pc = "exited", !.did = Did("shutdown", daemon.ip)]
    /\ frameDaemon

NextDaemon ==
    DaemonStartup \/ DaemonTickDNS \/ DaemonTickFile \/ DaemonTargetStep
        \/ DaemonSignal \/ DaemonShutdown

SpecDaemon == InitDaemon /\ [][NextDaemon]_vars

----------------------------------------------------------------------------
(* Updater: isNonRetryableError applied to one error text *)

LowerLetters ==
    <<"a", "b", "c", "d", "e", "f", "g", "h", "i", "j", "k", "l", "m",
      "n", "o", "p", "q", "r", "s", "t", "u", "v", "w", "x", "y", "z">>

UpperLetters ==
    <<"A", "B", "C", "D", "E", "F", "G", "H", "I", "J", "K", "L", "M",
      "N", "O", "P", "Q", "R", "S", "T", "U", "V", "W", "X", "Y", "Z">>

\* unicode.ToUpper on the characters that occur
UpperRune(c) ==
    IF \E i \in 1..26 : LowerLetters[i] = c
    THEN UpperLetters[CHOOSE i \in 1..26 : LowerLetters[i] = c]
    ELSE c

\* unicode.ToLower on the characters that occur
LowerRune(c) ==
    IF \E i \in 1..26 : UpperLetters[i] = c
    THEN LowerLetters[CHOOSE i \in 1..26 : UpperLetters[i] = c]
    ELSE c

\* strings.ToUpper
UpperText(s) == [i \in 1..Len(s) |-> UpperRune(s[i])]

\* strings.ToLower
LowerText(s) == [i \in 1..Len(s) |-> LowerRune(s[i])]

\* the text with its first letter in upper case, as API messages and HTTP
\* status texts are written ("Unauthorized", "Permission denied")
Capitalised(s) == IF s = <<>> THEN s ELSE <<UpperRune(s[1])>> \o Tail(s)

\* the ways a phrase is written in a message
Spellings(s) == {s, Capitalised(s), UpperText(s)}

\* what an adapter puts before the message the API sent
Txt_ApiErrorPrefix ==
    <<"g", "o", "d", "a", "d", "d", "y", " ", "A", "P", "I", " ", "e", "r", "r", "o", "r",
      ":", " ">>

\* what an adapter puts after the message the API sent
Txt_CodeSuffix == <<" ", "(", "c", "o", "d", "e", ":", " ", "4", "0", "1", ")">>

\* the words of the messages: the phrases of the vocabulary and one that
\* is not among them
MessageWords == {nonRetryableErrors[i] : i \in 1..Len(nonRetryableErrors)} \cup {Txt_Timeout}

\* error texts: a word in one of its spellings, alone or inside an
\* adapter's error format
ErrorTexts ==
    {pre \o w \o post : pre \in {<<>>, Txt_ApiErrorPrefix},
                        w \in UNION {Spellings(x) : x \in MessageWords},
                        post \in {<<>>, Txt_CodeSuffix}}

InitClassify ==
    /\ \E e \in ErrorTexts : classified = [pc |-> "given", err |-> e, terminal |-> FALSE]
    /\ daemon = NoDaemon
    /\ dnsTest = NoDNSTest
    /\ adapter = NoAdapter
    /\ retry = NoRetry
    /\ DNSIdle
    /\ FileIdle
    /\ CycleIdle
    /\ probe = NoProbe

\* isNonRetryableError(err)
Classify ==
    /\ classified.pc = "given"
    /\ classified' = [classified EXCEPT !.pc = "classified",
                                         !.terminal = isNonRetryableError(classified.err)]
    /\ UNCHANGED <<dnsVars, fileVars, cycleVars, probe, adapter, retry, daemon, dnsTest>>

NextClassify == Classify

SpecClassify == InitClassify /\ [][NextClassify]_vars

----------------------------------------------------------------------------
(* main: the --test-dns pass *)

\* the three asterisks between the parts of a masked credential
Txt_Stars == <<"*", "*", "*">>

\* a slice expression whose bounds are out of range: the Go runtime panics
SlicePanic == [panic |-> TRUE, s |-> <<>>]

Masked(s) == [panic |-> FALSE, s |-> s]

\* credential[from:], counting from 0
SliceFrom(credential, from) ==
    IF from < 0 \/ from > Len(credential) THEN SlicePanic
    ELSE Masked(SubSeq(credential, from + 1, Len(credential)))

\* credential[:to]
SliceTo(credential, to) ==
    IF to < 0 \/ to > Len(credential) THEN SlicePanic
    ELSE Masked(SubSeq(credential, 1, to))

\* main.maskCredential
maskCredential(credential) ==
    IF Len(credential) <= 8
    THEN LET tail == SliceFrom(credential, Len(credential) - 2)
         IN IF tail.panic THEN SlicePanic ELSE Masked(Txt_Stars \o tail.s)
    ELSE LET head == SliceTo(credential, 4)
             tail == SliceFrom(credential, Len(credential) - 4)
         IN IF head.panic \/ tail.panic THEN SlicePanic
            ELSE Masked(head.s \o Txt_Stars \o tail.s)

\* the characters credentials are cut from; all differ, so that a masked
\* string shows which positions it took
KeyMaterial == <<"a", "b", "c", "d", "e", "f", "g", "h", "i", "j", "k", "l">>

\* access keys and secret keys of a configuration: of every length from
\* the empty string of a token-only target upwards
Credentials == {SubSeq(KeyMaterial, 1, n) : n \in 0..Len(KeyMaterial)}

\* the DNS updaters of a configuration, as far as the pass reads them
TestUpdaters ==
    {<<>>} \cup {<<[accessKey |-> a, secretKey |-> b]>> : a, b \in Credentials}

InitTestDNS ==
    /\ \E u \in TestUpdaters :
            dnsTest = [pc |-> "loaded", updaters |-> u, idx |-> 1, logged |-> <<>>,
                       results |-> <<>>]
    /\ daemon = NoDaemon
    /\ classified = NoClassified
    /\ adapter = NoAdapter
    /\ retry = NoRetry
    /\ DNSIdle
    /\ FileIdle
    /\ CycleIdle
    /\ probe = NoProbe

frameTestDNS ==
    UNCHANGED <<dnsVars, fileVars, cycleVars, probe, adapter, retry, daemon, classified>>

\* testDNSProviders: no DNS updater is configured, os.Exit(1)
TestDNSNothingToTest ==
    /\ dnsTest.pc = "loaded" /\ Len(dnsTest.updaters) = 0
    /\ dnsTest' = [dnsTest EXCEPT !.pc = "exited"]
    /\ frameTestDNS

\* testDNSProviders: one pass of the loop over the DNS updaters; ok is what
\* testSingleDNSProvider returns
TestDNSUpdater ==
    \E ok \in BOOLEAN :
        /\ dnsTest.pc = "loaded" /\ Len(dnsTest.updaters) > 0
        /\ dnsTest.idx <= Len(dnsTest.updaters)
        /\ LET u == dnsTest.updaters[dnsTest.idx]
               maskedKey == maskCredential(u.accessKey)
               maskedSecret == maskCredential(u.secretKey)
           IN IF maskedKey.panic
              THEN dnsTest' = [dnsTest EXCEPT !.pc = "crashed"]
              ELSE IF maskedSecret.panic
              THEN dnsTest' = [dnsTest EXCEPT !.pc = "crashed"]
              ELSE dnsTest' = [dnsTest EXCEPT
                                  !.idx = @ + 1,
                                  !.logged = @ \o <<[of |-> u.accessKey, line |-> maskedKey.s],
                                                    [of |-> u.secretKey, line |-> maskedSecret.s]>>,
                                  !.results = Append(@, ok)]
        /\ frameTestDNS

\* testDNSProviders: the loop is through, the pass returns
TestDNSDone ==
    /\ dnsTest.pc = "loaded" /\ Len(dnsTest.updaters) > 0
    /\ dnsTest.idx > Len(dnsTest.updaters)
    /\ dnsTest' = [dnsTest EXCEPT !.pc = "done"]
    /\ frameTestDNS

NextTestDNS == TestDNSNothingToTest \/ TestDNSUpdater \/ TestDNSDone

SpecTestDNS == InitTestDNS /\ [][NextTestDNS]_vars

----------------------------------------------------------------------------
(* DNS: what the last call did, read from its call log *)

\* UpdateDNSRecord has been called and the last call has returned
Called == dnsIP # NoIP /\ dnsCall = NoDNSCall

IsOp(e, op) == e.op = op

UpdateCalls == SelectSeq(dnsLog, LAMBDA e : IsOp(e, "UpdateRecord"))

FetchIdx == {i \in 1..Len(dnsLog) : dnsLog[i].op = "GetRecords"}

FetchFailed == \E i \in FetchIdx : dnsLog[i].err # "nil"

\* the record list the manager got from GetRecords (nothing on a failed fetch)
FetchedRecs ==
    IF \E i \in FetchIdx : dnsLog[i].err = "nil"
    THEN dnsLog[CHOOSE i \in FetchIdx : dnsLog[i].err = "nil"].recs
    ELSE <<>>

MaxOf(S) == CHOOSE x \in S : \A y \in S : y <= x

\* the current value the fetched set gives for (name, type): that of the last
\* fetched record with this name and type; NoIP when there is none
CurrentValue(name, type) ==
    LET I == {j \in 1..Len(FetchedRecs) :
                 FetchedRecs[j].name = name /\ FetchedRecs[j].type = type}
    IN IF I = {} THEN NoIP ELSE FetchedRecs[MaxOf(I)].value

AlreadyCorrect(r) == CurrentValue(r.name, r.type) = dnsIP

NeedWrite == SelectSeq(dnsTarget.records, LAMBDA r : ~AlreadyCorrect(r))

SameRecord(e, r) == e.name = r.name /\ e.type = r.type

\* C1: a desired record whose (name,type) the fetched record set gives a
\* current value equal to the desired IP gets no UpdateRecord call in that call.
C1_SkipWhenEqual ==
    Called =>
        \A i \in 1..Len(dnsTarget.records) :
            AlreadyCorrect(dnsTarget.records[i]) =>
                ~\E j \in 1..Len(UpdateCalls) : SameRecord(UpdateCalls[j], dnsTarget.records[i])

\* a call that skipped one record as already correct and wrote another one
C1_Witness ==
    /\ Called /\ dnsResult = "nil"
    /\ Len(dnsTarget.records) = 2
    /\ AlreadyCorrect(dnsTarget.records[1])
    /\ Len(UpdateCalls) = 1
    /\ SameRecord(UpdateCalls[1], dnsTarget.records[2])

\* C2: after a successful UpdateDNSRecord(target, ip), with nobody else changing
\* the provider's records, the next UpdateDNSRecord(target, ip) with the same ip
\* issues no UpdateRecord call, for every registered provider (the provider's
\* API failing no request of the second call).
C2_SecondCallWritesNothing ==
    (repeated /\ \A i \in FetchIdx : dnsLog[i].err # ErrFetchRequest) =>
        Len(UpdateCalls) = 0

\* C3: a call that finds its provider calls GetRecords exactly once, before any
\* UpdateRecord call, whatever the number of desired records.
C3_FetchOnceBeforeWrites ==
    (Called /\ dnsTarget.provider \in Providers) =>
        /\ Cardinality(FetchIdx) = 1
        /\ \A i \in FetchIdx : \A j \in 1..Len(dnsLog) :
               dnsLog[j].op = "UpdateRecord" => i < j

\* a call with two desired records, both written, after one fetch
C3_Witness ==
    /\ Called /\ Len(dnsTarget.records) = 2 /\ Len(UpdateCalls) = 2
    /\ Cardinality(FetchIdx) = 1

\* C4: when GetRecords fails, the call does not return the fetch error; it calls
\* UpdateRecord for the desired records in order, for all of them unless an
\* UpdateRecord fails, and then returns nil.
C4_FetchFailureForcesWrites ==
    (Called /\ FetchFailed) =>
        /\ \A i \in FetchIdx : dnsResult # dnsLog[i].err
        /\ Len(UpdateCalls) <= Len(dnsTarget.records)
        /\ \A j \in 1..Len(UpdateCalls) : SameRecord(UpdateCalls[j], dnsTarget.records[j])
        /\ (\A j \in 1..Len(UpdateCalls) : UpdateCalls[j].err = "nil") =>
               (dnsResult = "nil" /\ Len(UpdateCalls) = Len(dnsTarget.records))
        /\ (\E j \in 1..Len(UpdateCalls) : UpdateCalls[j].err # "nil") => dnsResult # "nil"

\* a failed fetch followed by a write of both desired records and success
C4_Witness ==
    /\ Called /\ FetchFailed /\ dnsResult = "nil"
    /\ Len(dnsTarget.records) = 2 /\ Len(UpdateCalls) = 2

\* C5: after an UpdateRecord failure every remaining desired record is still
\* processed in the same call (skipped as correct, or written).
C5_ContinuesAfterFailure ==
    (Called /\ \E j \in 1..Len(UpdateCalls) : UpdateCalls[j].err # "nil") =>
        \A i \in 1..Len(dnsTarget.records) :
            \/ AlreadyCorrect(dnsTarget.records[i])
            \/ \E j \in 1..Len(UpdateCalls) : SameRecord(UpdateCalls[j], dnsTarget.records[i])

\* C6: nil is returned only if every desired record was skipped as already
\* correct or had an UpdateRecord call that returned nil.
C6_NilOnlyIfAllDone ==
    (Called /\ dnsResult = "nil") =>
        /\ Len(UpdateCalls) = Len(NeedWrite)
        /\ \A j \in 1..Len(UpdateCalls) :
               SameRecord(UpdateCalls[j], NeedWrite[j]) /\ UpdateCalls[j].err = "nil"

\* a successful call in which one record was skipped and one written
C6_Witness ==
    /\ Called /\ dnsResult = "nil" /\ Len(dnsTarget.records) = 2
    /\ Len(NeedWrite) = 1 /\ Len(UpdateCalls) = 1 /\ UpdateCalls[1].err = "nil"
    /\ dnsTarget.provider = "godaddy"

\* C7: a target whose provider is not registered gets ErrProviderNotFound and
\* no SetCredentials, GetRecords or UpdateRecord call reaches any provider.
C7_UnknownProvider ==
    (Called /\ dnsTarget.provider \notin Providers) =>
        /\ dnsResult = ErrProviderNotFound
        /\ dnsLog = <<>>
        /\ \A p \in Providers : creds[p] = NoCred

\* a call for a target naming an unregistered provider, with records to write
C7_Witness ==
    /\ Called /\ dnsTarget.provider = UnregisteredProvider
    /\ Len(dnsTarget.records) = 2
    /\ dnsResult = ErrProviderNotFound

----------------------------------------------------------------------------
(* File: reading the last call *)

FileCalled == fileCall.called

\* the call replaced the file at FilePath
Wrote == \E i \in 1..Len(fileCall.ops) : fileCall.ops[i] = "write"

\* what GetCurrentValue returned on the file as it was when the call began
ReadBefore == GetCurrentValue(fileCfg, fileCall.preFile)

\* what GetCurrentValue returns on the file as it is now
ReadNow == GetCurrentValue(fileCfg, fsFile)

\* s is some non-empty text, a "/" and one or more digits
HasMaskForm(s) ==
    \E i \in 2..(Len(s) - 1) : s[i] = "/" /\ \A j \in (i + 1)..Len(s) : s[j] \in Digits

\* the "/" and digits s ends with
MaskOf(s) ==
    LET i == CHOOSE i \in 2..(Len(s) - 1) :
                 s[i] = "/" /\ \A j \in (i + 1)..Len(s) : s[j] \in Digits
    IN SubSeq(s, i, Len(s))

\* the mask rule as the specification words it
MaskRule(cur, ip) == IF HasMaskForm(cur) THEN ip \o MaskOf(cur) ELSE ip

\* C8: an UpdateIP call whose mask-merged value equals the string stored at
\* keyPath leaves the bytes of the file and the .backup file as they were and
\* returns nil, also with Backup enabled; and an UpdateIP call that repeats,
\* right after it, a successful call with the same IP writes nothing.
C8_EqualValueTouchesNothing ==
    FileCalled =>
        /\ (ReadBefore.err = "nil" /\ MaskRule(ReadBefore.s, fileCall.ip) = ReadBefore.s) =>
               /\ fsFile = fileCall.preFile
               /\ fsBackup = fileCall.preBackup
               /\ fileCall.ops = <<>>
               /\ fileCall.result = "nil"
        /\ fileCall.repeated => (~Wrote /\ fsFile = fileCall.preFile)

\* with Backup enabled, the repetition of a call that wrote a masked value:
\* the backup the first call made is still the one on disk
C8_Witness ==
    /\ FileCalled /\ fileCall.repeated /\ fileCfg.backup
    /\ ReadBefore.err = "nil" /\ HasMaskForm(ReadBefore.s)
    /\ fileCall.preFile.layout = "canonical"
    /\ fsBackup.kind = "text" /\ fsBackup.layout = "original"
    /\ fileCall.ops = <<>>

\* C9: the value UpdateIP goes on to write is the desired IP followed by the
\* "/digits" the current value ends with when the current value has the form
\* <x>/<digits>, and the desired IP verbatim otherwise; text that is not a valid
\* IP on either side changes nothing of this and makes no call fail.
C9_MaskRule ==
    FileCalled =>
        /\ fileCall.value = (IF ReadBefore.err = "nil"
                             THEN MaskRule(ReadBefore.s, fileCall.ip)
                             ELSE fileCall.ip)
        /\ (ReadBefore.err = "nil" /\ fileCall.fault = "none") => fileCall.result = "nil"

\* a call that finds "x/8" stored and is given 999.1.1.1: both draw a warning,
\* and 999.1.1.1/8 is written
C9_Witness ==
    /\ FileCalled /\ Wrote /\ fileCall.result = "nil"
    /\ ReadBefore = Got("nil", <<"x", "/", "8">>)
    /\ fileCall.ip = IP_Big
    /\ fileCall.warnings = <<"current", "new">>
    /\ fileCall.value = IP_Big \o <<"/", "8">>

\* C10: after an UpdateIP call that wrote the file and returned nil,
\* GetCurrentValue on the same keyPath returns exactly the value written, in
\* every format.
C10_ReadBackWritten ==
    (FileCalled /\ Wrote /\ fileCall.result = "nil") =>
        ReadNow = Got("nil", fileCall.value)

\* a TOML write through a three-segment path none of whose maps existed
C10_Witness ==
    /\ FileCalled /\ Wrote /\ fileCall.result = "nil"
    /\ fileCfg.format = "toml"
    /\ Len(Split(fileCfg.keyPath, "/")) = 3
    /\ fileCall.preFile = Text(Doc({}), "original")
    /\ ReadNow = Got("nil", fileCall.ip)

\* C11: at every step of an UpdateIP call the content at the file's path is
\* the complete original content or the complete new content; up to the rename
\* it is the original, also when the call is interrupted with the temp file
\* fully written; no format ever shows a partly written file.
C11_TargetPathAtomic ==
    FileCalled =>
        LET seen == fileCall.seen
            IsNew(f) == /\ f.kind = "text" /\ f.layout = "canonical"
                        /\ GetCurrentValue(fileCfg, f) = Got("nil", fileCall.value)
        IN /\ \A i \in 1..Len(seen) : seen[i] = fileCall.preFile \/ IsNew(seen[i])
           /\ \A i \in 1..Len(seen) : i < 5 => seen[i] = fileCall.preFile
           /\ fsFile = (IF seen = <<>> THEN fileCall.preFile ELSE seen[Len(seen)])
           /\ fileCall.result = Killed => fsFile = fileCall.preFile
           /\ fsFile.kind = "partial" => fileCall.preFile.kind = "partial"

\* a call interrupted when the temp file held the complete new content: the
\* file at the path is still the hand-written original
C11_Witness ==
    /\ FileCalled /\ fileCall.result = Killed
    /\ fileCall.temp.kind = "text" /\ fileCall.temp.layout = "canonical"
    /\ fileCall.temp # fileCall.preFile
    /\ fsFile = fileCall.preFile /\ fsFile.layout = "original"
    /\ Len(fileCall.seen) = 4

\* C12: with Backup enabled, after an UpdateIP call that changed the file the
\* .backup file holds exactly the content the file had just before the call,
\* whatever an earlier backup held; when the call is a further attempt after
\* failed ones, that is also the content the file had before the first attempt.
C12_BackupHoldsPreviousContent ==
    (FileCalled /\ fileCfg.backup /\ fsFile # fileCall.preFile) =>
        /\ fsBackup = fileCall.preFile
        /\ fsBackup = fileCall.runStart

\* a second attempt that changed the file and replaced the partial backup
\* the failed first attempt had left
C12_Witness ==
    /\ FileCalled /\ fileCfg.backup /\ fileCall.retried /\ Wrote
    /\ fileCall.preBackup = PartialCopy
    /\ fsFile # fileCall.preFile
    /\ fsBackup = fileCall.preFile /\ fsBackup.kind = "text"

----------------------------------------------------------------------------
(* Updater: reading the events of an UpdateAll call *)

TargetKinds == {"dns", "file"}

TargetsOf(kind) == IF kind = "dns" THEN 1..Len(config.dns) ELSE 1..Len(config.files)

\* positions in events of the attempts made on a target
AttemptsAt(kind, idx) ==
    {e \in 1..Len(events) :
        events[e].kind = kind /\ events[e].idx = idx /\ events[e].ev = "attempt"}

\* positions in events of the sleeps made for a target
SleepsAt(kind, idx) ==
    {e \in 1..Len(events) :
        events[e].kind = kind /\ events[e].idx = idx /\ events[e].ev = "sleep"}

\* the retry loop of the target has returned
TargetDone(kind, idx) ==
    IF kind = "dns"
    THEN run.pc \in {"files", "done", "crashed"} \/ (run.pc = "dns" /\ run.idx > idx)
    ELSE run.pc = "done" \/ (run.pc \in {"files", "crashed"} /\ run.idx > idx)

\* the retry loop of the target was entered
LoopEntered(kind, idx) ==
    \/ kind = "dns" /\ (TargetDone("dns", idx) \/ (run.pc = "dns" /\ run.idx = idx))
    \/ kind = "file" /\ \E e \in 1..Len(events) :
            /\ events[e].kind = "file" /\ events[e].idx = idx
            /\ events[e].ev = "validate" /\ events[e].err = NoError

\* every attempt made on the target failed, none with a non-retryable error
EveryAttemptFailedRetryably(kind, idx) ==
    \A e \in AttemptsAt(kind, idx) :
        events[e].err # NoError /\ ~isNonRetryableError(events[e].err)

\* C13: with the retry maximum set to 3, a DNS or file target whose every
\* attempt fails with a retryable error is attempted exactly 3 times in one cycle.
C13_ThreeAttempts ==
    \A kind \in TargetKinds : \A idx \in TargetsOf(kind) :
        (/\ config.maxRetries = 3
         /\ LoopEntered(kind, idx) /\ TargetDone(kind, idx)
         /\ EveryAttemptFailedRetryably(kind, idx))
        => Cardinality(AttemptsAt(kind, idx)) = 3

\* C13 (amended): a DNS or file target whose retry loop is entered and whose
\* every attempt fails with a retryable error is attempted exactly
\* MaxRetries + 1 times in one cycle: 4 times with the retry maximum set to 3.
\* (Stated by contraposition: a finished target attempted any other number of
\* times had an attempt that succeeded or failed with a non-retryable error.)
C13_MaxRetriesPlusOneAttempts ==
    \A kind \in TargetKinds : \A idx \in TargetsOf(kind) :
        (/\ config.maxRetries >= 0
         /\ TargetDone(kind, idx) /\ LoopEntered(kind, idx)
         /\ Cardinality(AttemptsAt(kind, idx)) # config.maxRetries + 1)
        => ~EveryAttemptFailedRetryably(kind, idx)

C13_Witness ==
    /\ config.maxRetries = 3
    /\ \E idx \in TargetsOf("dns") :
        /\ TargetDone("dns", idx) /\ EveryAttemptFailedRetryably("dns", idx)
        /\ Cardinality(AttemptsAt("dns", idx)) = 4
    /\ \E idx \in TargetsOf("file") :
        /\ LoopEntered("file", idx) /\ TargetDone("file", idx)
        /\ EveryAttemptFailedRetryably("file", idx)
        /\ Cardinality(AttemptsAt("file", idx)) = 4

\* the phrase occurs in the text, letter for letter
Mentions(text, phrase) ==
    \E a \in 0..(Len(text) - Len(phrase)) : SubSeq(text, a + 1, a + Len(phrase)) = phrase

\* the text matches the vocabulary of terminal errors
MatchesVocabulary(text) ==
    \E i \in DOMAIN nonRetryableErrors : Mentions(text, nonRetryableErrors[i])

\* positions in events of what was done for the target after position e
LaterEvents(kind, idx, e) ==
    {x \in (e + 1)..Len(events) : events[x].kind = kind /\ events[x].idx = idx}

\* after the attempt at position e the loop had attempts left
AttemptsRemain(e) == events[e].n < EffectiveMaxRetries(config.maxRetries) + 1

\* the attempt at position e was followed by a sleep and then a further attempt
RetriedAfter(kind, idx, e) ==
    /\ e + 2 <= Len(events)
    /\ events[e + 1] = Slept(kind, idx, events[e].n + 1)
    /\ events[e + 2].kind = kind /\ events[e + 2].idx = idx
    /\ events[e + 2].ev = "attempt" /\ events[e + 2].n = events[e].n + 1

\* the errors slice of the loop that handles targets of the kind
ErrorsOf(kind) == IF kind = "dns" THEN errs.dns ELSE errs.files

\* nothing more was done for the target after the attempt at position e, and
\* the error of the attempt, if any, is the error kept for the target
EndedTarget(kind, idx, e, err) ==
    /\ LaterEvents(kind, idx, e) = {}
    /\ TargetDone(kind, idx)
    /\ (err # NoError) <=> (\E m \in 1..Len(ErrorsOf(kind)) : ErrorsOf(kind)[m] = ErrMsg(idx, err))

\* the attempt at position e was followed by a sleep and a further attempt, or
\* the loop is about to do so
WentOn(kind, idx, e) ==
    /\ LaterEvents(kind, idx, e) # {} => RetriedAfter(kind, idx, e)
    /\ LaterEvents(kind, idx, e) = {} =>
            /\ ~TargetDone(kind, idx)
            /\ run.idx = idx /\ run.attempt = events[e].n

\* what followed the attempt at position e, which returned err
AttemptFollowedUp(kind, idx, e, err, matches) ==
    /\ (err = NoError \/ matches) => EndedTarget(kind, idx, e, err)
    /\ (err # NoError /\ err # Txt_NilMapPanic /\ ~matches /\ AttemptsRemain(e))
            => WentOn(kind, idx, e)

\* C14: in the retry loop an attempt's error ends the target at once, with no
\* further attempt and no sleep, exactly when its message contains a phrase of
\* the fixed vocabulary; any other error is followed by a sleep and a further
\* attempt while attempts remain; after a success or a terminal error nothing
\* more is done for the target in the cycle.  (An attempt that panics returns
\* no error.)
C14_TerminalIffVocabulary ==
    \A kind \in TargetKinds : \A idx \in TargetsOf(kind) : \A e \in AttemptsAt(kind, idx) :
        AttemptFollowedUp(kind, idx, e, events[e].err, MatchesVocabulary(events[e].err))

C14_Witness ==
    /\ \E idx \in TargetsOf("dns") : \E e \in AttemptsAt("dns", idx) :
        /\ events[e].err = Txt_ApiUnauthorized /\ AttemptsRemain(e)
        /\ TargetDone("dns", idx) /\ LaterEvents("dns", idx, e) = {}
    /\ \E idx \in TargetsOf("file") : \E e \in AttemptsAt("file", idx) :
        /\ events[e].err = Txt_TempWriteNoSpace /\ AttemptsRemain(e)
        /\ RetriedAfter("file", idx, e)
        /\ events[e + 2].err = Txt_TempCreateDenied
        /\ TargetDone("file", idx) /\ LaterEvents("file", idx, e + 2) = {}

\* the errors a target's retry function returned, as UpdateDNS / UpdateFiles kept them
ReturnedErrors(kind, idx) ==
    {ErrorsOf(kind)[m].err : m \in {x \in 1..Len(ErrorsOf(kind)) : ErrorsOf(kind)[x].idx = idx}}

\* position in events of the last attempt made on the target
LastAttempt(kind, idx) ==
    CHOOSE e \in AttemptsAt(kind, idx) : \A x \in AttemptsAt(kind, idx) : x <= e

FailedAfterText(kind) == IF kind = "dns" THEN Txt_DNSFailedAfter ELSE Txt_FileFailedAfter

\* C15: the error a target's retry loop finally returns carries the last
\* attempt's error, both when it stops on a terminal error and when it stops
\* because the attempts are exhausted.
C15_CarriesLastError ==
    \A kind \in TargetKinds : \A idx \in TargetsOf(kind) :
        (TargetDone(kind, idx) /\ AttemptsAt(kind, idx) # {}) =>
            \A err \in ReturnedErrors(kind, idx) :
                Mentions(err, events[LastAttempt(kind, idx)].err)

\* the text reads "<DNS|file> update failed after N attempts", N a number
SaysOnlyExhausted(kind, text) ==
    LET head == FailedAfterText(kind)
        n == SubSeq(text, Len(head) + 1, Len(text) - Len(Txt_Attempts))
    IN /\ Len(text) > Len(head) + Len(Txt_Attempts)
       /\ SubSeq(text, 1, Len(head)) = head
       /\ SubSeq(text, Len(text) - Len(Txt_Attempts) + 1, Len(text)) = Txt_Attempts
       /\ \A j \in 1..Len(n) : n[j] \in Digits

\* err is what the retry loop returns when its last attempt returned last:
\* last itself when last is terminal, else the text that says only that the
\* attempts are exhausted
ReturnedFor(kind, err, last) ==
    IF MatchesVocabulary(last)
    THEN err = last
    ELSE /\ last # NoError
         /\ SaysOnlyExhausted(kind, err)
         /\ ~Mentions(err, last)

\* C15 (amended): when the retry loop stops on a terminal error it returns the
\* last attempt's error itself; when it stops because the attempts are
\* exhausted it returns a new error, "<DNS|file> update failed after N
\* attempts", which does not carry the last attempt's error.
C15_LastErrorOnlyWhenTerminal ==
    \A kind \in TargetKinds : \A idx \in TargetsOf(kind) :
        (TargetDone(kind, idx) /\ AttemptsAt(kind, idx) # {}) =>
            \A err \in ReturnedErrors(kind, idx) :
                ReturnedFor(kind, err, events[LastAttempt(kind, idx)].err)

\* a DNS target exhausted its four attempts on a throttled API and got the
\* exhaustion text; a file target ended on a terminal error and got it back
C15_Witness ==
    /\ \E idx \in TargetsOf("dns") :
        /\ TargetDone("dns", idx)
        /\ events[LastAttempt("dns", idx)].err = Txt_ApiThrottled
        /\ ReturnedErrors("dns", idx) = {Txt_DNSFailedAfter \o <<"4">> \o Txt_Attempts}
    /\ \E idx \in TargetsOf("file") :
        /\ TargetDone("file", idx) /\ AttemptsAt("file", idx) # {}
        /\ events[LastAttempt("file", idx)].err = Txt_TempCreateDenied
        /\ ReturnedErrors("file", idx) = {Txt_TempCreateDenied}

\* something was done for the target: a validation or an attempt
Handled(kind, idx) ==
    \E e \in 1..Len(events) : events[e].kind = kind /\ events[e].idx = idx

\* the target did not end in success: its validation or its last attempt gave an error
TargetFailed(kind, idx) ==
    /\ Handled(kind, idx)
    /\ LET last == CHOOSE e \in 1..Len(events) :
                        /\ events[e].kind = kind /\ events[e].idx = idx
                        /\ LaterEvents(kind, idx, e) = {}
       IN events[last].err # NoError

\* the targets the errors slice of a loop names, in order
NamedIn(errors) == [m \in 1..Len(errors) |-> errors[m].idx]

\* the failed targets of a kind, in configuration order
RECURSIVE FailedTargets(_, _)
FailedTargets(kind, from) ==
    IF from > Len(IF kind = "dns" THEN config.dns ELSE config.files) THEN <<>>
    ELSE (IF TargetFailed(kind, from) THEN <<from>> ELSE <<>>) \o FailedTargets(kind, from + 1)

\* the UpdateAll call is over: it returned, or the process ended
CycleOver == run.pc \in {"done", "crashed"}

\* C16: in UpdateDNS, UpdateFiles and UpdateAll the failure of one target never
\* keeps a later target from being attempted (file targets are handled also
\* when DNS targets failed), and the composite error returned is non-nil
\* exactly when at least one target failed and has one entry for every failed
\* target.
C16_FailuresDoNotHaltTheBatch ==
    /\ CycleOver => \A kind \in TargetKinds : \A idx \in TargetsOf(kind) : Handled(kind, idx)
    /\ returned.done =>
        /\ returned.isNil <=> (FailedTargets("dns", 1) \o FailedTargets("file", 1) = <<>>)
        /\ NamedIn(errs.dns) = FailedTargets("dns", 1)
        /\ NamedIn(errs.files) = FailedTargets("file", 1)
        /\ returned.errors = Composite("DNS updates failed", errs.dns)
                                \o Composite("File updates failed", errs.files)

\* place of an event's target in the order the configuration gives: DNS
\* targets in list order, then file targets in list order
Rank(ev) == IF ev.kind = "dns" THEN ev.idx ELSE Len(config.dns) + ev.idx

\* place of the target the running call is at
RunRank ==
    CASE run.pc = "dns" -> run.idx
      [] run.pc \in {"files", "crashed"} -> Len(config.dns) + run.idx
      [] OTHER -> Len(config.dns) + Len(config.files) + 1

\* place of a record in a target's record list
RecordIndex(t, name, type) ==
    CHOOSE i \in 1..Len(t.records) : t.records[i] = [name |-> name, type |-> type]

\* positions of the UpdateRecord calls in a call log
UpdateRecordCalls(log) == {c \in 1..Len(log) : log[c].op = "UpdateRecord"}

\* C17: within one UpdateAll cycle targets are handled strictly one after the
\* other in configuration order, all DNS targets and then all file targets;
\* nothing is done for a target before everything (attempts, retries, sleeps)
\* for the targets before it is done, and the records of a DNS target are
\* processed in list order.
C17_SequentialInOrder ==
    /\ \A a, b \in 1..Len(events) : a < b => Rank(events[a]) <= Rank(events[b])
    /\ \A e \in 1..Len(events) :
        /\ Rank(events[e]) <= RunRank
        /\ \A r \in 1..(Rank(events[e]) - 1) :
            \E x \in 1..(e - 1) : Rank(events[x]) = r
        /\ \A r \in 1..(Rank(events[e]) - 1) :
            IF r <= Len(config.dns) THEN TargetDone("dns", r)
            ELSE TargetDone("file", r - Len(config.dns))
    /\ \A kind \in TargetKinds : \A idx \in TargetsOf(kind) : \A e \in AttemptsAt(kind, idx) :
        /\ events[e].n = Cardinality({x \in AttemptsAt(kind, idx) : x <= e})
        /\ events[e].n > 1 => events[e - 1] = Slept(kind, idx, events[e].n)
    /\ \A idx \in TargetsOf("dns") : \A e \in AttemptsAt("dns", idx) :
        LET log == events[e].calls
            t == config.dns[idx]
        IN \A c, d \in UpdateRecordCalls(log) :
                c < d => RecordIndex(t, log[c].name, log[c].type)
                            < RecordIndex(t, log[d].name, log[d].type)

C17_Witness ==
    /\ run.pc = "done"
    /\ Len(config.dns) = 2 /\ Len(config.files) = 2
    /\ \E e \in AttemptsAt("dns", 1) : Cardinality(UpdateRecordCalls(events[e].calls)) = 2
    /\ Cardinality(AttemptsAt("dns", 1)) > 1
    /\ Cardinality(AttemptsAt("dns", 2)) > 1
    /\ Cardinality(AttemptsAt("file", 1)) > 1
    /\ Cardinality(AttemptsAt("file", 2)) > 1

\* C18: a DNS target that names an unregistered provider fails terminally:
\* updateDNSWithRetry makes exactly one attempt for it and no retry or sleep,
\* for every retry policy.
C18_UnregisteredProviderOneAttempt ==
    \A idx \in TargetsOf("dns") :
        ~GetProvider(config.dns[idx].provider) =>
            /\ Cardinality(AttemptsAt("dns", idx)) <= 1
            /\ SleepsAt("dns", idx) = {}
            /\ TargetDone("dns", idx) =>
                /\ Cardinality(AttemptsAt("dns", idx)) = 1
                /\ ReturnedErrors("dns", idx) = {Txt_ProviderNotFound}

\* C19: a file target whose keyPath is invalid (an intermediate key that
\* exists but is not a map, or an INI keyPath without exactly two segments)
\* fails terminally: updateFileWithRetry makes exactly one UpdateIP attempt for
\* it and no retry.
C19_InvalidKeyPathOneAttempt ==
    \A idx \in TargetsOf("file") : \A e \in AttemptsAt("file", idx) :
        events[e].err \in {Txt_InvalidPath, Txt_IniKeyPath} =>
            /\ events[e].n = 1
            /\ LaterEvents("file", idx, e) = {}
            /\ TargetDone("file", idx)
            /\ ReturnedErrors("file", idx) = {events[e].err}

\* C20: UpdateDNSRecord and UpdateIP make the same provider calls / file
\* operations, leave the same zone, credentials and files, and return the same
\* result whether the logger is set or nil; with a nil logger no log statement
\* is executed, and no call ends in a nil-logger dereference.
C20_LoggerDoesNotChangeBehaviour ==
    probe.called =>
        /\ ~probe.loggerPanic /\ ~probe.twinPanic
        /\ probe.did = probe.twinDid
        /\ probe.logger = NilLogger => (probe.lines = <<>> /\ probe.twinLines # <<>>)
        /\ probe.logger = SomeLogger => (probe.lines # <<>> /\ probe.twinLines = <<>>)

C20_Witness ==
    /\ probe.called /\ probe.op = "UpdateDNSRecord" /\ probe.logger = NilLogger
    /\ dnsResult = "nil"
    /\ \E c \in 1..Len(dnsLog) : dnsLog[c].op = "UpdateRecord"
    /\ probe.lines = <<>>
    /\ Len(probe.twinLines) >= 4

----------------------------------------------------------------------------
(* Provider adapters: what the last adapter call did *)

\* the records of the requested name and type the API held before the call
ExactMatches(z, name, type) == {i \in 1..Len(z) : z[i].name = name /\ z[i].type = type}

\* the last request the call sent
LastSent == adapter.sent[Len(adapter.sent)]

\* every request the call sent was answered without an error
AllAnswered == \A k \in 1..Len(adapter.sent) : adapter.sent[k].reply = "ok"

WriteKinds == {"create", "update", "replace"}

\* C21: for every provider, UpdateRecord returns nil only if a create or
\* update write request for the record was sent and accepted; and when the
\* record to update does not exist, it either sends a create or returns a
\* non-nil error.
C21_NeverSilentNoOp ==
    adapter.op = "UpdateRecord" =>
        /\ adapter.err = "nil" =>
                /\ adapter.sent # <<>>
                /\ LastSent.kind \in WriteKinds /\ LastSent.reply = "ok"
                /\ \E i \in 1..Len(adapter.held) :
                        adapter.held[i] = [name |-> adapter.name, type |-> adapter.type,
                                           value |-> adapter.ip]
        /\ ExactMatches(adapter.before, adapter.name, adapter.type) = {} =>
                \/ adapter.err # "nil"
                \/ adapter.sent # <<>> /\ LastSent.kind \in {"create", "replace"}

\* the call sent its read requests and all were answered
LookupAnswered ==
    /\ adapter.sent # <<>>
    /\ \A k \in 1..Len(adapter.sent) :
            adapter.sent[k].kind = "read" => adapter.sent[k].reply = "ok"
    /\ \/ LastSent.kind # "read"
       \/ adapter.err = ErrRecordNotFound

\* C22: for aliyun, tencent, huawei and cloudflare the read inside
\* UpdateRecord treats zero matching records as the signal to create the
\* record, not as an error, and when records are returned it selects the first
\* record whose name and type are exactly the requested ones.
C22_ZeroMatchesCreateElseFirstExact ==
    (/\ adapter.op = "UpdateRecord"
     /\ adapter.provider \in {"aliyun", "tencent", "huawei", "cloudflare"}
     /\ LookupAnswered) =>
        LET exact == ExactMatches(adapter.before, adapter.name, adapter.type)
        IN /\ exact = {} =>
                /\ adapter.err # ErrRecordNotFound
                /\ LastSent.kind = "create"
           /\ exact # {} =>
                /\ adapter.picked \in exact
                /\ \A i \in exact : adapter.picked <= i

\* the credentials the provider's API asks for are set in the adapter
CredentialsValid ==
    IF adapter.provider = "cloudflare" THEN adapter.cred.a # ""
    ELSE adapter.cred.a # "" /\ adapter.cred.b # ""

\* C23: for every provider, GetRecords on a domain that has no records, with
\* valid credentials and a reachable API, returns an empty list and a nil error.
C23_EmptyDomainListsNothing ==
    (/\ adapter.op = "GetRecords"
     /\ adapter.before = <<>>
     /\ CredentialsValid
     /\ AllAnswered) =>
        adapter.err = "nil" /\ adapter.recs = <<>>

\* C24: a signing function called twice with the same method, parameters,
\* timestamp and credentials returns the same signature, whatever order
\* the two ranges over the parameter map took, and the call leaves the
\* adapter's credentials as they were
C24_SigningDeterministic ==
    adapter.op = "Sign" =>
        /\ adapter.sig = adapter.sigAgain
        /\ adapter.cred = adapter.credBefore
        /\ adapter.held = adapter.before

\* an aliyun or tencent request signed with credentials set, the two
\* ranges over its parameter map in different orders
C24_Witness ==
    /\ adapter.op = "Sign"
    /\ adapter.provider \in {"aliyun", "tencent"}
    /\ adapter.cred.b # ""
    /\ adapter.orders[1] # adapter.orders[2]
    /\ adapter.sig # <<>>

----------------------------------------------------------------------------
(* Updater: the credentials the shared provider instances hold *)

\* the last event is an attempt on DNS target T that reached the provider
SyncedLast(T, e) ==
    /\ e.kind = "dns" /\ e.ev = "attempt" /\ e.calls # <<>>
    /\ T = config.dns[e.idx]

\* the calls of the attempt start with one SetCredentials, and every
\* GetRecords and UpdateRecord call comes after it
AttachedFirst(calls) ==
    /\ calls[1].op = "SetCredentials"
    /\ \A k \in 2..Len(calls) : calls[k].op \in {"GetRecords", "UpdateRecord"}

\* C25 as the specification states it: during the calls of an attempt on
\* target T the provider instance holds T's token (cloudflare, token
\* non-empty) or else T's access key and secret key
C25_HoldsTargetCredentials ==
    events # <<>> =>
        \A T \in SharedDNSPool :
            SyncedLast(T, events[Len(events)]) =>
                /\ AttachedFirst(events[Len(events)].calls)
                /\ mgrCreds[T.provider] = CredentialsFor(T)

\* C25, amended: the instance holds what its SetCredentials keeps of T's
\* credentials, which for cloudflare is the first of the pair only (the
\* token, or the access key when the token is empty)
C25_HoldsWhatAdapterKeeps ==
    events # <<>> =>
        \A T \in SharedDNSPool :
            SyncedLast(T, events[Len(events)]) =>
                /\ AttachedFirst(events[Len(events)].calls)
                /\ mgrCreds[T.provider].a = CredentialsFor(T).a
                /\ T.provider # "cloudflare" => mgrCreds[T.provider].b = CredentialsFor(T).b
                /\ T.provider = "cloudflare" => mgrCreds[T.provider].b = ""

\* the second of two targets on one provider with different credentials
\* has been attempted, GetRecords and UpdateRecord called
C25_Witness ==
    /\ Len(config.dns) = 2
    /\ config.dns[1].provider = config.dns[2].provider
    /\ CredentialsFor(config.dns[1]) # CredentialsFor(config.dns[2])
    /\ events # <<>>
    /\ SyncedLast(config.dns[2], events[Len(events)])
    /\ events[Len(events)].idx = 2
    /\ \E k \in 1..Len(events[Len(events)].calls) : events[Len(events)].calls[k].op = "UpdateRecord"

----------------------------------------------------------------------------
(* Updater: the retry loop without a limit *)

\* the loop of a target that always fails retryably, Retry.MaxRetries = -1
Unbounded == retry.maxRetries = -1 /\ retry.fate = "alwaysRetryable"

\* C26: with the retry maximum -1 the loop of a target that always fails
\* with a retryable error ends: it never makes more than 999999 + 1
\* attempts, and it returns, after exactly that many, the error that
\* reports the target failed
C26_UnboundedLoopEnds ==
    /\ <>(retry.pc = "returned")
    /\ [](Unbounded =>
            /\ retry.made <= RetryCeiling + 1
            /\ retry.pc = "returned" =>
                    /\ retry.made = RetryCeiling + 1
                    /\ retry.err = ExhaustedError(IF retry.kind = "dns" THEN Txt_DNSFailedAfter
                                                   ELSE Txt_FileFailedAfter, RetryCeiling))

\* the unbounded loop after four failed attempts, more than any finite
\* setting of the model allows, about to sleep and try again
C26_Witness ==
    /\ Unbounded
    /\ retry.pc = "loop"
    /\ retry.made = 4
    /\ retry.slept = 3
    /\ LoopContinues(retry.attempt, EffectiveMaxRetries(retry.maxRetries))

----------------------------------------------------------------------------
(* Updater: where the retry loops sleep *)

\* the event at position e belongs to the same target as the one at position x
SameTarget(e, x) == events[e].kind = events[x].kind /\ events[e].idx = events[x].idx

\* the attempt at position e failed and the loop had retries left
FailedWithRetriesLeft(e) ==
    /\ events[e].ev = "attempt"
    /\ events[e].err # NoError
    /\ events[e].n <= EffectiveMaxRetries(config.maxRetries)

\* the newest attempt, when a sleep precedes it, follows an error that is
\* not terminal.  A sleep enters the list together with the attempt it
\* precedes, so the sleep before the newest attempt is every sleep in turn.
NewestSleepAfterRetryable ==
    (Len(events) >= 3 /\ events[Len(events) - 1].ev = "sleep") =>
        ~isNonRetryableError(events[Len(events) - 2].err)

\* C27: a target's first attempt is not preceded by a sleep; each later
\* attempt is preceded by exactly one sleep, of the configured interval;
\* and a sleep comes only between a retryable failure that left retries
\* and the next attempt on the same target, so none follows the final
\* attempt, a success or a terminal error
C27_OneSleepBeforeEachRetry ==
    /\ NewestSleepAfterRetryable
    /\ \A e \in 1..Len(events) :
           /\ (events[e].ev = "attempt" /\ events[e].n = 1) =>
                   (e = 1 \/ events[e - 1].ev # "sleep")
           /\ (events[e].ev = "attempt" /\ events[e].n > 1) =>
                   /\ e >= 3
                   /\ events[e - 1] = Slept(events[e].kind, events[e].idx, events[e].n)
                   /\ events[e - 1].calls = <<Sleep(config.interval)>>
                   /\ events[e - 2].ev = "attempt"
           /\ events[e].ev = "sleep" =>
                   /\ e >= 2 /\ e < Len(events)
                   /\ SameTarget(e, e - 1) /\ FailedWithRetriesLeft(e - 1)
                   /\ events[e - 1].n = events[e].n - 1
                   /\ SameTarget(e, e + 1) /\ events[e + 1].ev = "attempt"
                   /\ events[e + 1].n = events[e].n

\* a target succeeded or failed for good on a retry, and the loop went
\* on to the first attempt of the next target without a sleep
C27_Witness ==
    \E e \in 3..(Len(events) - 1) :
        /\ events[e].ev = "attempt" /\ events[e].n > 1
        /\ events[e - 1].ev = "sleep"
        /\ events[e - 1].calls = <<Sleep(config.interval)>>
        /\ (events[e].err = NoError \/ isNonRetryableError(events[e].err))
        /\ events[e + 1].ev = "attempt" /\ events[e + 1].n = 1
        /\ config.interval > 0

----------------------------------------------------------------------------
(* File: UpdateIP when the current value cannot be read *)

\* the errors of GetCurrentValue for a key path that is not there and for
\* a value that is not a string
NotFoundOrNotString == {ErrKeyNotFound, ErrIniNoSection, ErrNotString}

\* the last call found the file readable but not the value
ValueUnreadable ==
    /\ fileCall.called
    /\ GetCurrentValue(fileCfg, fileCall.preFile).err \in NotFoundOrNotString

\* results of a call that reached the write step
WriteStepResults == {"nil", ErrAtomicWrite, Killed, Panic, NilKeyPanic}

\* C28: when GetCurrentValue fails because the key path is not found or
\* the value is not a string, UpdateIP does not return that error: it
\* takes the desired IP as it is, makes the backup when backups are on,
\* and goes on to the write, which on success leaves that IP at the key
C28_UnreadableValueStillWritten ==
    ValueUnreadable =>
        /\ fileCall.result \notin NotFoundOrNotString
        /\ fileCall.value = fileCall.ip
        /\ fileCfg.backup => (fileCall.ops # <<>> /\ fileCall.ops[1] = "backup")
        /\ fileCall.result # ErrBackup => fileCall.result \in WriteStepResults
        /\ fileCall.result = "nil" =>
                /\ fileCall.ops[Len(fileCall.ops)] = "write"
                /\ GetCurrentValue(fileCfg, fsFile) = Got("nil", fileCall.ip)

\* a call on a file whose value was a number or missing wrote the
\* desired IP, after a backup
C28_Witness ==
    /\ ValueUnreadable
    /\ fileCfg.backup
    /\ fileCall.result = "nil"
    /\ fileCall.ops = <<"backup", "write">>
    /\ fsBackup = fileCall.preFile
    /\ GetCurrentValue(fileCfg, fsFile).s = fileCall.ip

----------------------------------------------------------------------------
(* File: the key path of an INI target *)

\* the last call was made on an INI target whose file ini.Load accepts
IniCall ==
    /\ fileCall.called
    /\ ToLower(fileCfg.format) = "ini"
    /\ fileCall.preFile.kind = "text"

Segments == Split(fileCfg.keyPath, "/")

\* section/key holds the value in the file as it is now
IniHolds(value) ==
    /\ fsFile.kind = "text"
    /\ Has(fsFile.doc, Segments[1])
    /\ Has(At(fsFile.doc, Segments[1]), Segments[2])
    /\ At(At(fsFile.doc, Segments[1]), Segments[2]) = StrV(value)

\* C29: on an INI file that loads, a call whose backup did not fail ends
\* with the invalid-key-path error and the file unchanged whenever the key
\* path has not exactly two segments; with exactly two segments, and no
\* fault of the file system, it returns nil and section/key holds the
\* new value, the section created when absent
C29_IniTwoSegments ==
    IniCall =>
        /\ (Len(Segments) # 2 /\ fileCall.result # ErrBackup) =>
                (fileCall.result = ErrIniKeyPath /\ fsFile = fileCall.preFile)
        /\ (Len(Segments) = 2 /\ fileCall.fault = "none") =>
                (fileCall.result = "nil" /\ IniHolds(fileCall.value))

----------------------------------------------------------------------------
(* File: nested key paths whose intermediate keys are missing or not maps *)

\* the last call was made on a JSON, YAML or TOML target whose file decodes
NestedCall ==
    /\ fileCall.called
    /\ ToLower(fileCfg.format) \in NestedFormats
    /\ fileCall.preFile.kind = "text"

\* on the way down the keys an intermediate key exists and holds
\* something that is not a map
RECURSIVE Blocked(_, _)
Blocked(current, keys) ==
    /\ Len(keys) > 1
    /\ Has(current, keys[1])
    /\ \/ At(current, keys[1]).t # "map"
       \/ Blocked(At(current, keys[1]), Tail(keys))

\* on the way down the keys an intermediate key is absent, every
\* intermediate key before it holding a map
RECURSIVE Absent(_, _)
Absent(current, keys) ==
    /\ Len(keys) > 1
    /\ \/ ~Has(current, keys[1])
       \/ /\ At(current, keys[1]).t = "map"
          /\ Absent(At(current, keys[1]), Tail(keys))

\* C30: when an intermediate key of the key path exists and its value is
\* not a map, the get fails with the invalid-path error and so does the
\* set, leaving the file as it was; when intermediate keys are absent the
\* set creates the missing levels and succeeds
C30_IntermediateKeys ==
    NestedCall =>
        /\ Blocked(fileCall.preFile.doc, Split(fileCfg.keyPath, "/")) =>
                /\ GetCurrentValue(fileCfg, fileCall.preFile).err = ErrInvalidPath
                /\ fileCall.result \in {ErrInvalidPath, ErrBackup}
                /\ fsFile = fileCall.preFile
        /\ (Absent(fileCall.preFile.doc, Split(fileCfg.keyPath, "/")) /\ fileCall.fault = "none") =>
                /\ fileCall.result = "nil"
                /\ GetCurrentValue(fileCfg, fsFile) = Got("nil", fileCall.ip)

----------------------------------------------------------------------------
(* Daemon: what a shutdown signal does to a running cycle *)

\* the targets of one side of the daemon's configuration
DaemonTargets(side) == daemon.cfg[side]

\* the retry loop of a target ran to one of its own ends: success, a
\* terminal error, a failed validation, or every attempt with a sleep
\* before each but the first
RanToItsEnd(entry) ==
    /\ entry.end \in {"ok", "terminal", "invalid", "exhausted"}
    /\ entry.end = "invalid" <=> entry.made = 0
    /\ entry.made > 0 => entry.slept = entry.made - 1
    /\ entry.end = "exhausted" => entry.made = EffectiveMaxRetries(daemon.cfg.maxRetries) + 1

\* the last UpdateDNS / UpdateFiles call of a side has returned with every
\* target of the side handled
CallComplete(side) ==
    /\ Len(daemon.calls[side].entries) = Len(DaemonTargets(side))
    /\ \A i \in 1..Len(daemon.calls[side].entries) : RanToItsEnd(daemon.calls[side].entries[i])

\* the signal arrived while this side's call was running
SignalledDuring(side) ==
    daemon.signalAt.pc = (IF side = "dns" THEN "UpdateDNS" ELSE "UpdateFiles")

\* C31: a shutdown signal that arrives while UpdateDNS or UpdateFiles is
\* running does not cut the call short: once the call is over every target
\* of the side has run its retry loop to the loop's own end, with all its
\* attempts and sleeps, and main leaves (pc "exited") only from the select,
\* never from inside a call.
C31_SignalDoesNotInterrupt ==
    /\ [](\A side \in {"dns", "files"} :
            (SignalledDuring(side) /\ daemon.pc \in {"select", "exited"}) => CallComplete(side))
    /\ [][daemon'.pc = "exited" => daemon.pc = "select" /\ daemon.cancelled]_vars

\* the signal came in the retry loop of the first DNS target after a failed
\* attempt; the second target then made all its attempts, sleeping before
\* each retry, and main has left
C31_Witness ==
    /\ daemon.pc = "exited"
    /\ daemon.signalAt = [pc |-> "UpdateDNS", idx |-> 1, made |-> 1]
    /\ Len(daemon.calls.dns.entries) = 2
    /\ daemon.calls.dns.entries[2] = [made |-> 3, slept |-> 2, end |-> "exhausted"]

----------------------------------------------------------------------------
(* DNS: what changes the provider's records during a call *)

\* the requests a step of a call sent: all the call has sent when the step
\* began the call, what it added otherwise
SentInStep(before, sentBefore, sentAfter) ==
    IF before = NoDNSCall THEN sentAfter
    ELSE SubSeq(sentAfter, Len(sentBefore) + 1, Len(sentAfter))

\* a request that creates, changes or replaces records
IsWrite(q) == q.kind \in WriteKinds

\* the fetch of the call succeeded and the list it returned gives every
\* desired record the wanted value
EveryRecordCorrect ==
    /\ FetchIdx # {} /\ ~FetchFailed
    /\ \A i \in 1..Len(dnsTarget.records) : AlreadyCorrect(dnsTarget.records[i])

\* C32: fetching and looking up records changes nothing.  Every request a
\* GetRecords call sends is a read; a request that creates, changes or
\* replaces records is sent by an UpdateRecord call only; a step of
\* UpdateDNSRecord changes the provider's records only when it sent such a
\* request from an UpdateRecord call and the API accepted it (any other
\* change is somebody else's edit); and a call in which the fetched list
\* gives every desired record the wanted value has sent nothing but the
\* read of its GetRecords and, nobody else editing, leaves the records as
\* GetRecords listed them.
C32_OnlyUpdateRecordWrites ==
    /\ [][LET new == SentInStep(dnsCall, dnsSent, dnsSent')
          IN /\ \A k \in 1..Len(new) : new[k].call = "GetRecords" => new[k].kind = "read"
             /\ \A k \in 1..Len(new) : IsWrite(new[k]) => new[k].call = "UpdateRecord"
             /\ (zone' # zone /\ (tampered' => tampered)) =>
                    \E k \in 1..Len(new) :
                        /\ new[k].call = "UpdateRecord"
                        /\ IsWrite(new[k])
                        /\ new[k].reply = "ok"]_vars
    /\ []((Called /\ EveryRecordCorrect) =>
            /\ \A k \in 1..Len(dnsSent) :
                    dnsSent[k].call = "GetRecords" /\ dnsSent[k].kind = "read"
            /\ ~tampered => zone = FetchedRecs)

\* an aliyun target with two records: GetRecords sent its one
\* DescribeDomainRecords request, the list gave both records the wanted
\* value, both were skipped, and the provider holds what it held
C32_Witness ==
    /\ Called /\ dnsResult = "nil"
    /\ dnsTarget.provider = "aliyun"
    /\ Len(dnsTarget.records) = 2
    /\ EveryRecordCorrect
    /\ Len(UpdateCalls) = 0
    /\ dnsSent = <<[call |-> "GetRecords", verb |-> "DescribeDomainRecords",
                    kind |-> "read", reply |-> "ok"]>>
    /\ Len(zone) > 0 /\ zone = FetchedRecs

----------------------------------------------------------------------------
(* Updater: letter case in the classification of errors *)

\* the text holds a phrase of the vocabulary in some capitalisation
HoldsPhraseInAnyCase(text) ==
    \E i \in 1..Len(nonRetryableErrors) :
        containsSubstring(LowerText(text), nonRetryableErrors[i])

\* C33: isNonRetryableError classifies an error text as terminal exactly
\* when the text holds a phrase of the vocabulary in any capitalisation.
C33_CaseInsensitive ==
    classified.pc = "classified" =>
        (classified.terminal <=> HoldsPhraseInAnyCase(classified.err))

----------------------------------------------------------------------------
(* Cycle: the passes of one DNS target *)

\* the attempts made on the DNS target, in order
Passes == SelectSeq(events, LAMBDA e : e.kind = "dns" /\ e.ev = "attempt")

UpdateRecordsOf(pass) == SelectSeq(pass.calls, LAMBDA c : c.op = "UpdateRecord")

\* the pass has the shape of one UpdateDNSRecord call: credentials set,
\* GetRecords once, then UpdateRecord calls for records in list order
CompletePass(pass) ==
    \/ pass.calls = <<>> /\ ~GetProvider(config.dns[pass.idx].provider)
    \/ /\ Len(pass.calls) >= 2
       /\ pass.calls[1].op = "SetCredentials"
       /\ pass.calls[2].op = "GetRecords"
       /\ \A k \in 3..Len(pass.calls) : pass.calls[k].op = "UpdateRecord"
       /\ \A k, l \in 3..Len(pass.calls) :
            k < l => RecordIndex(config.dns[pass.idx], pass.calls[k].name, pass.calls[k].type)
                       < RecordIndex(config.dns[pass.idx], pass.calls[l].name, pass.calls[l].type)

FetchSucceeded(pass) == Len(pass.calls) >= 2 /\ pass.calls[2].err = "nil"

\* the pass holds an accepted UpdateRecord call for the record
WroteRecord(pass, name, type) ==
    \E k \in 1..Len(pass.calls) :
        /\ pass.calls[k].op = "UpdateRecord" /\ pass.calls[k].err = "nil"
        /\ pass.calls[k].name = name /\ pass.calls[k].type = type

CallsRecord(pass, name, type) ==
    \E k \in 1..Len(pass.calls) :
        /\ pass.calls[k].op = "UpdateRecord"
        /\ pass.calls[k].name = name /\ pass.calls[k].type = type

\* C34: every attempt on a DNS target is a complete pass, and a pass whose
\* fetch succeeded makes no UpdateRecord call for a record that an earlier
\* pass of the cycle updated successfully.
C34_UpdatedRecordNotWrittenAgain ==
    /\ \A n \in 1..Len(Passes) : CompletePass(Passes[n])
    /\ \A n \in 1..Len(Passes), m \in 1..Len(Passes) :
         (m < n /\ FetchSucceeded(Passes[n])) =>
            \A r \in Range(config.dns[1].records) :
                WroteRecord(Passes[m], r.name, r.type) => ~CallsRecord(Passes[n], r.name, r.type)

----------------------------------------------------------------------------
(* Daemon: dnsLastIP and fileLastIP *)

\* the step just taken settled this side of a check as `how`
Settled(side, how) == daemon'.did[side] = how

\* C35: dnsLastIP (fileLastIP) changes only to the detected IP of the step,
\* and only in a step in which UpdateDNS (UpdateFiles) returned nil for that
\* IP or found no updater configured; a step in which the update failed
\* leaves it as it was, a tick that detects an IP other than it enters the
\* update again, and what one side does never changes the other side's value.
C35_LastIPFollowsSuccess ==
    [][/\ daemon'.dnsLastIP # daemon.dnsLastIP =>
            /\ daemon'.dnsLastIP = daemon'.ip
            /\ Settled("dns", "ok") \/ Settled("dns", "unconfigured")
       /\ daemon'.fileLastIP # daemon.fileLastIP =>
            /\ daemon'.fileLastIP = daemon'.ip
            /\ Settled("files", "ok") \/ Settled("files", "unconfigured")
       /\ Settled("dns", "failed") => daemon'.dnsLastIP = daemon.dnsLastIP
       /\ Settled("files", "failed") => daemon'.fileLastIP = daemon.fileLastIP
       /\ (daemon'.did.step = "dnsTick" /\ daemon'.did.detected \in IPs
             /\ daemon'.did.detected # daemon.dnsLastIP /\ Len(daemon.cfg.dns) > 0)
            => daemon'.pc = "UpdateDNS" /\ daemon'.ip = daemon'.did.detected
       /\ (daemon'.did.step = "fileTick" /\ daemon'.did.detected \in IPs
             /\ daemon'.did.detected # daemon.fileLastIP /\ Len(daemon.cfg.files) > 0)
            => daemon'.pc = "UpdateFiles" /\ daemon'.ip = daemon'.did.detected]_vars

\* a DNS tick has detected the IP for which the last UpdateDNS call failed
\* and has entered UpdateDNS again, while fileLastIP already holds that IP
C35_Witness ==
    /\ daemon.did.step = "dnsTick" /\ daemon.pc = "UpdateDNS" /\ daemon.made = 0
    /\ daemon.calls.dns.ip = daemon.ip
    /\ AnyFailed(daemon.calls.dns.entries)
    /\ daemon.dnsLastIP # daemon.ip
    /\ daemon.fileLastIP = daemon.ip

----------------------------------------------------------------------------
(* Cycle: a file target that fails validation *)

\* the errors ValidateFile returned for file target i in the list of events
ValidationErrors(evs, i) ==
    {evs[k].err : k \in {j \in 1..Len(evs) : /\ evs[j].kind = "file" /\ evs[j].idx = i
                                              /\ evs[j].ev = "validate"
                                              /\ evs[j].err # NoError}}

\* C36: a file target whose ValidateFile fails gets no UpdateIP attempt and
\* no sleep in that cycle, whatever Retry.MaxRetries is; it is entered in
\* the errors of UpdateFiles as `file validation failed: ...`, no backup is
\* made and its file stays as it was.
C36_InvalidFileNeverAttempted ==
    /\ [](\A i \in 1..Len(config.files) :
            ValidationErrors(events, i) # {} =>
                /\ \A k \in 1..Len(events) :
                     (events[k].kind = "file" /\ events[k].idx = i) => events[k].ev = "validate"
                /\ \E k \in 1..Len(errs.files) :
                     /\ errs.files[k].idx = i
                     /\ \E err \in ValidationErrors(events, i) :
                            errs.files[k].err = Txt_ValidationFailed \o err
                /\ disk[i].backup = NoFile)
    /\ [][\A i \in 1..Len(config.files) :
            ValidationErrors(events', i) # {} => disk'[i] = disk[i]]_vars

\* a finished cycle with three retries: the first target's content does not
\* parse and was only validated, the second made all four attempts
C36_Witness ==
    /\ run.pc = "done" /\ config.maxRetries = 3 /\ Len(config.files) = 2
    /\ ValidationErrors(events, 1) = {Txt_ParseError}
    /\ disk[1].file = Garbage
    /\ Cardinality(AttemptsAt("file", 2)) = 4

----------------------------------------------------------------------------
(* Cycle: how many attempts a validated target gets *)

\* the most attempts a target may get under Retry.MaxRetries
AttemptLimit(maxRetries) == IF maxRetries = -1 THEN RetryCeiling + 1 ELSE maxRetries + 1

\* C37: for every integer Retry.MaxRetries a target that passed validation
\* is attempted at least once in the cycle and never more often than
\* MaxRetries + 1 times (1,000,000 times for -1).
C37_AtLeastOneAttempt ==
    \A i \in 1..Len(config.files) :
        /\ AttemptsAt("file", i) # {} =>
                Cardinality(AttemptsAt("file", i)) <= AttemptLimit(config.maxRetries)
        /\ (run.pc = "done" /\ ValidationErrors(events, i) = {}) =>
                Cardinality(AttemptsAt("file", i)) >= 1

----------------------------------------------------------------------------
(* FileUpdater.UpdateIP: a backup that cannot be made *)

\* the last call of UpdateIP came to its backup step
ReachedBackup ==
    LET cur == GetCurrentValue(fileCfg, fileCall.preFile)
    IN /\ fileCall.called /\ fileCfg.backup
       /\ cur.err # NilKeyPanic
       /\ ~(cur.err = "nil" /\ SkipWrite(cur.s, processIPWithMask(cur.s, fileCall.ip).value))

\* createBackup returned an error in the last call of UpdateIP
BackupStepFailed ==
    /\ ReachedBackup
    /\ createBackup(fileCall.preFile, fileCall.preBackup, fileCall.fault).err # "nil"

\* C38: when createBackup fails UpdateIP returns the error `failed to
\* create backup`, the target file is as it was before the call and no step
\* of the write was entered.
C38_BackupFailureStopsUpdate ==
    BackupStepFailed =>
        /\ fileCall.result = ErrBackup
        /\ fsFile = fileCall.preFile
        /\ ~Wrote
        /\ fileCall.seen = <<>>
        /\ fileCall.temp = NoFile

\* the copy into the backup failed on a JSON file that holds another
\* address at the key: the file is untouched
C38_Witness ==
    /\ BackupStepFailed
    /\ fileCall.fault = "backup-copy"
    /\ fileCall.preFile.kind = "text"
    /\ GetCurrentValue(fileCfg, fileCall.preFile).err = "nil"
    /\ GetCurrentValue(fileCfg, fileCall.preFile).s = IP_A
    /\ fileCall.ip = IP_B
    /\ fsBackup = PartialCopy
    /\ fsFile = fileCall.preFile

----------------------------------------------------------------------------
(* FileUpdater.atomicWrite: the temp file *)

\* the last call of UpdateIP went into atomicWrite and atomicWrite returned
AtomicWriteReturned ==
    fileCall.called /\ fileCall.seen # <<>> /\ fileCall.result # Killed

\* C39: atomicWrite leaves no temp file behind.  When it returns an error
\* the temp file is removed and the target is as before; when it returns
\* nil the temp path is gone and the target holds the data, which is the
\* encoded document with the value UpdateIP computed at the key.
C39_NoTempLeftBehind ==
    AtomicWriteReturned =>
        /\ fileCall.temp = NoFile
        /\ fileCall.result # "nil" => fsFile = fileCall.preFile
        /\ fileCall.result = "nil" =>
                /\ fsFile = fileCall.seen[Len(fileCall.seen)]
                /\ fsFile.kind = "text"
                /\ GetCurrentValue(fileCfg, fsFile).err = "nil"
                /\ GetCurrentValue(fileCfg, fsFile).s = fileCall.value

----------------------------------------------------------------------------
(* main: what the --test-dns pass shows of a credential *)

\* the line is some of the first four characters of the credential, three
\* asterisks, and some of its last four characters
ShowsAtMostEnds(credential, line) ==
    \E h, t \in 0..4 :
        /\ h <= Len(credential) /\ t <= Len(credential)
        /\ line = SubSeq(credential, 1, h) \o Txt_Stars
                    \o SubSeq(credential, Len(credential) - t + 1, Len(credential))

\* C40: the --test-dns pass never crashes: maskCredential returns a masked
\* string for a credential of every length, the empty one included, and the
\* string shows no more than the first four and the last four characters.
C40_TestDNSNeverCrashes ==
    /\ dnsTest.pc # "crashed"
    /\ dnsTest.pc \in {"loaded", "done"} =>
            \A k \in 1..Len(dnsTest.logged) :
                ShowsAtMostEnds(dnsTest.logged[k].of, dnsTest.logged[k].line)
====
